---- MODULE Spec2Model ----
(***************************************************************************)
(* Halftonish: pattern generation, halftone compositing and darkness       *)
(* analysis.  The module models                                            *)
(*   - one invocation of a generator / halftone loop / darkness scan       *)
(*     (specification SpecUnit),                                           *)
(*   - the application controller with the pattern, halftone and analysis  *)
(*     workers, each a single-threaded message loop (specification Spec),  *)
(*   - the controller's halftone slot (specification SpecSlot).            *)
(***************************************************************************)
EXTENDS Integers, Sequences, FiniteSets, TLC

\* ------------------------------------------------------------------ bounds
MaxH == 3
MaxInbox == 1
MaxOps == 2
MaxUnits == 2

\* ------------------------------------------------------- program constants
chunkSize == 10000
ProgressSteps == 100
SlotLoopStep == 10
SlotLoopLast == 100

\* ------------------------------------------------------------- input sets
Widths == {1, 5000, 10000}
Heights == 1..MaxH
Iterations == {-1, 0, 1}
RadiusTenths == {14, 80}

GenOps == {"random", "noise", "benday", "hilbert", "peano", "zorder", "gosper"}
CurveOps == {"hilbert", "peano", "zorder", "gosper"}
HalftoneMethods == {"threshold", "blend", "floyd-steinberg", "ordered"}
AnalysisOps == {"analysis"}
AllOps == GenOps \cup HalftoneMethods \cup AnalysisOps

None == [type |-> "none"]

\* ----------------------------------------------------------------- helpers
Min(a, b) == IF a < b THEN a ELSE b

Max(a, b) == IF a > b THEN a ELSE b

CeilDiv(a, b) == (a + b - 1) \div b

RECURSIVE Pow(_, _)
Pow(b, e) == IF e <= 0 THEN 1 ELSE b * Pow(b, e - 1)

\* Math.round of a radius given in tenths of a pixel
RoundTenths(t) == (t + 5) \div 10

\* progress values are fractions <<numerator, denominator>>
Frac(n, d) == <<n, d>>

FracLeq(p, q) == p[1] * q[2] <= q[1] * p[2]

\* --------------------------------------------------- one invocation (call)
\* st: "ready" before the prelude, "loop" inside the main loop,
\*     "returned" | "cancelled" | "error" once the call has ended
NewCall(op, w, h, it, rt) ==
    [op |-> op, w |-> w, h |-> h, iters |-> it, radiusTenths |-> rt,
     pos |-> 0, st |-> "ready", err |-> "none"]

\* number of points the curve generators produce; -1: the recursion never
\* reaches its base case (peanoRecursive tests iteration === 0)
PointCount(op, it) ==
    CASE op = "hilbert" -> IF it <= 0 THEN 1 ELSE Pow(4, it)
      [] op = "peano"   -> IF it < 0 THEN -1 ELSE Pow(9, it)
      [] op = "zorder"  -> IF it <= 0 THEN 1 ELSE Pow(4, it)
      [] op = "gosper"  -> Pow(7, it) + 1
      [] OTHER          -> 0

\* prelude of a call: everything before the main loop
Begin(u) ==
    IF u.op \in CurveOps
    THEN IF PointCount(u.op, u.iters) < 0
         THEN [u EXCEPT !.st = "error", !.err = "Maximum call stack size exceeded"]
         ELSE IF PointCount(u.op, u.iters) < 2
              THEN [u EXCEPT !.st = "error", !.err = "Not enough points"]
              ELSE [u EXCEPT !.st = "loop"]
    ELSE [u EXCEPT !.st = "loop"]

\* the test `cancelToken && cancelToken.cancelled`
CancelObservedNever(tok) == FALSE

CancelObserved(tok) == tok.present /\ tok.cancelled

\* ---- row loops: Hilbert, Peano, Z-order, Gosper, noise, Ben-Day, halftone
RowStepCheckEvenRows(u, c) ==
    IF c /\ u.pos % 2 = 0
    THEN [u EXCEPT !.st = "cancelled"]
    ELSE [u EXCEPT !.pos = u.pos + 1,
                   !.st = IF u.pos + 1 = u.h THEN "returned" ELSE "loop"]

RowStep(u, c) ==
    IF c
    THEN [u EXCEPT !.st = "cancelled"]
    ELSE [u EXCEPT !.pos = u.pos + 1,
                   !.st = IF u.pos + 1 = u.h THEN "returned" ELSE "loop"]

\* progress reported by a generator after row u.pos
GenRowProgress(u) == << Frac(u.pos + 1, u.h) >>

\* progress posted by a halftone loop after row u.pos
HalftoneRowProgressEveryRow(u) == << Frac((u.pos + 1) * u.w, u.w * u.h) >>

HalftoneRowProgress(u) ==
    IF ((u.pos + 1) * u.w) % chunkSize = 0
    THEN << Frac((u.pos + 1) * u.w, u.w * u.h) >>
    ELSE << >>

\* ---- generateRandomPattern: one step runs the pixel loop up to the next
\*      progress callback (the flag cannot change between two callbacks)
RandomNext(u) == Min(u.w * u.h, ((u.pos \div chunkSize) + 1) * chunkSize)

RandomStep(u, c) ==
    IF c
    THEN [u EXCEPT !.st = "cancelled"]
    ELSE [u EXCEPT !.pos = RandomNext(u),
                   !.st = IF RandomNext(u) = u.w * u.h THEN "returned" ELSE "loop"]

RandomProgressOfChunks(u) ==
    (IF RandomNext(u) % chunkSize = 0
     THEN << Frac(RandomNext(u), chunkSize) >> ELSE << >>)
    \o (IF RandomNext(u) = u.w * u.h THEN << Frac(1, 1) >> ELSE << >>)

RandomProgress(u) ==
    (IF RandomNext(u) % chunkSize = 0
     THEN << Frac(RandomNext(u), u.w * u.h) >> ELSE << >>)
    \o (IF RandomNext(u) = u.w * u.h THEN << Frac(1, 1) >> ELSE << >>)

\* ---- analyzeDarkness: one step runs the sample loop up to and including
\*      the next sample that posts progress
Stride(u) == Max(1, RoundTenths(u.radiusTenths) \div 4)

\* the grid width rounded down
SamplesWideFloor(u) == u.w \div Stride(u)

SamplesWide(u) == CeilDiv(u.w, Stride(u))

SamplesHigh(u) == CeilDiv(u.h, Stride(u))

TotalSamples(u) == SamplesWide(u) * SamplesHigh(u)

ProgressInterval(u) == Max(1, TotalSamples(u) \div ProgressSteps)

\* index of the next sample with sampleIndex % progressInterval = 0
NextPosting(u) == CeilDiv(u.pos, ProgressInterval(u)) * ProgressInterval(u)

AnalysisNext(u) ==
    IF NextPosting(u) < TotalSamples(u) THEN NextPosting(u) + 1 ELSE TotalSamples(u)

AnalysisStep(u, c) ==
    IF c
    THEN [u EXCEPT !.st = "cancelled"]
    ELSE [u EXCEPT !.pos = AnalysisNext(u),
                   !.st = IF AnalysisNext(u) = TotalSamples(u) THEN "returned" ELSE "loop"]

AnalysisProgress(u) ==
    IF NextPosting(u) < TotalSamples(u)
    THEN << Frac(NextPosting(u), TotalSamples(u)) >>
    ELSE << >>

\* ---- dispatch on the kind of loop
Step(u, c) ==
    CASE u.op = "random"      -> RandomStep(u, c)
      [] u.op \in AnalysisOps -> AnalysisStep(u, c)
      [] OTHER                -> RowStep(u, c)

\* progress values emitted by the step taken from u when it is not cancelled
Emitted(u) ==
    CASE u.op = "random"           -> RandomProgress(u)
      [] u.op \in AnalysisOps      -> AnalysisProgress(u)
      [] u.op \in HalftoneMethods  -> HalftoneRowProgress(u)
      [] OTHER                     -> GenRowProgress(u)

\* ------------------------------------------------------------------ state
VARIABLES
    \* one invocation of an operation
    call,            \* the invocation: parameters, loop position, status
    token,           \* the cancellation token passed to it
    progressLog,     \* progress values reported so far, in order
    flip,            \* where the token was set during the run (None if not)
    settled,         \* what the controller did when the call ended, or None
    \* workers (pattern, halftone, analysis)
    inbox,           \* messages posted to the worker, not yet handled
    task,            \* the request the worker's handler is running, or None
    cancelled,       \* the worker's module-level cancellation flag
    outbox,          \* messages posted by the worker, not yet delivered
    posted,          \* messages posted since the last accepted request
    cancelMid,       \* a cancel was posted while the current request ran
    alive,           \* the worker object exists
    \* controller (app.js) and DarknessAnalyzer
    gen,             \* generation slot: listener attached, button states
    generatedPattern,
    importedPattern,
    analysisUI,      \* analysis slot as the controller shows it
    analyzer,        \* DarknessAnalyzer fields: isAnalyzing, worker
    awaiting,        \* the analyze() promise in flight (its image) or None
    analysisResult,
    lastAlert,       \* text of the last alert raised
    lastError,       \* failure of the most recent analyze() call
    analyzeCalls,    \* number of analyze() calls made
    opsLeft,         \* operations the user may still start
    showOverlay,     \* state.showOverlay
    analysisCanvas,  \* what the analysis canvas on the page holds
    overlayCanvas,   \* the overlay renderAnalysisResult generated last, or None
    \* controller halftone slot
    hUI,
    uploadedImage,
    units,           \* loop variable i of every applyHalftone call in flight
    \* curve point generators
    curve,           \* the generator called and its iteration count
    points,          \* the points pushed so far, in order
    \* pixel operations (halftone worker, analysis worker, overlay renderer)
    job,             \* the request: operation, parameters, loop position
    imageData,       \* the source image buffer passed in, as it is now
    patternData,     \* the pattern buffer passed in, as it is now
    given,           \* the two buffers as they were when passed in
    grayValues,      \* Floyd-Steinberg working copy (sixteenths, scaled)
    result,          \* the buffer the operation creates and fills
    twin,            \* the same request run with another pattern
    delivered,       \* the message posted on completion, or None
    darknessMap,     \* analysis samples computed so far
    tally,           \* analysis counters
    overlay,         \* overlay image rendered from the analysis result
    \* random pattern generator
    rng              \* SeededRandom state of the two invocations compared

unitVars == <<call, token, progressLog, flip, settled>>

workerVars == <<inbox, task, cancelled, outbox, posted, cancelMid, alive>>

viewVars == <<showOverlay, analysisCanvas, overlayCanvas>>

ctlVars == <<gen, generatedPattern, importedPattern, analysisUI, analyzer,
             awaiting, analysisResult, lastAlert, lastError, analyzeCalls, opsLeft,
             viewVars>>

slotVars == <<hUI, uploadedImage, units>>

curveVars == <<curve, points>>

pixelVars == <<job, imageData, patternData, given, grayValues, result, twin,
               delivered, darknessMap, tally, overlay>>

randVars == <<rng>>

pureVars == <<curveVars, pixelVars, randVars>>

progVars == <<unitVars, workerVars, ctlVars, slotVars>>

vars == <<unitVars, workerVars, ctlVars, slotVars, pureVars>>

Workers == {"pattern", "halftone", "analysis"}

\* --------------------------------------------------- initial state (parts)
UnitIdle ==
    /\ call = NewCall("random", 1, 1, 1, 14)
    /\ token = [present |-> TRUE, cancelled |-> FALSE]
    /\ progressLog = << >>
    /\ flip = None
    /\ settled = None

WorkersInit ==
    /\ inbox = [w \in Workers |-> << >>]
    /\ task = [w \in Workers |-> None]
    /\ cancelled = [w \in Workers |-> FALSE]
    /\ outbox = [w \in Workers |-> << >>]
    /\ posted = [w \in Workers |-> << >>]
    /\ cancelMid = [w \in Workers |-> FALSE]
    /\ alive = [w \in Workers |-> w = "halftone"]

CtlInit ==
    /\ gen = [pending |-> FALSE, isGenerating |-> FALSE, btnDisabled |-> FALSE,
              cancelVisible |-> FALSE, downloadDisabled |-> TRUE]
    /\ generatedPattern = None
    /\ importedPattern = None
    /\ analysisUI = [isAnalyzing |-> FALSE, btnDisabled |-> TRUE,
                     cancelVisible |-> FALSE]
    /\ analyzer = [isAnalyzing |-> FALSE, worker |-> FALSE]
    /\ awaiting = None
    /\ analysisResult = None
    /\ lastAlert = "none"
    /\ lastError = "none"
    /\ analyzeCalls = 0
    /\ opsLeft = MaxOps
    /\ showOverlay = TRUE
    /\ analysisCanvas = [type |-> "canvas", base |-> None, overlay |-> None]
    /\ overlayCanvas = None

SlotInit ==
    /\ hUI = [isApplying |-> FALSE, btnDisabled |-> TRUE,
              cancelVisible |-> FALSE, downloadDisabled |-> TRUE]
    /\ uploadedImage = FALSE
    /\ units = << >>

CurveIdle ==
    /\ curve = None
    /\ points = << >>

PixelIdle ==
    /\ job = None
    /\ imageData = None
    /\ patternData = None
    /\ given = None
    /\ grayValues = << >>
    /\ result = None
    /\ twin = None
    /\ delivered = None
    /\ darknessMap = << >>
    /\ tally = None
    /\ overlay = None

RandIdle == rng = None

PureIdle == CurveIdle /\ PixelIdle /\ RandIdle

\* ---- terminal messages of a worker
Image(origin, w, h) == [type |-> "image", origin |-> origin, w |-> w, h |-> h]

\* what the listener posts when the call has ended
EndPostsSwallowingErrors(u) ==
    CASE u.st = "returned"  -> << [type |-> "complete", img |-> Image(u.op, u.w, u.h)] >>
      [] u.st = "cancelled" -> << [type |-> "cancelled"] >>
      [] OTHER              -> << >>

EndPosts(u) ==
    CASE u.st = "returned"  -> << [type |-> "complete", img |-> Image(u.op, u.w, u.h)] >>
      [] u.st = "cancelled" -> << [type |-> "cancelled"] >>
      [] OTHER              -> << [type |-> "error", message |-> u.err] >>

\* ============================================================== SpecUnit
\* One invocation.  A generator receives the caller's token and progress
\* callback: the callback may set the token.  The halftone loops and the
\* darkness scan read the worker's module flag, which their message handler
\* has just reset, and report through postMessage.
InitUnit ==
    /\ \E op \in AllOps, w \in Widths, h \in Heights,
          it \in Iterations, rt \in RadiusTenths :
          call = NewCall(op, w, h,
                         IF op \in CurveOps THEN it ELSE 1,
                         IF op \in AnalysisOps THEN rt ELSE 14)
    /\ IF call.op \in GenOps
       THEN token \in [present : BOOLEAN, cancelled : BOOLEAN]
       ELSE token = [present |-> TRUE, cancelled |-> FALSE]
    /\ progressLog = << >>
    /\ flip = None
    /\ settled = None
    /\ WorkersInit /\ CtlInit /\ SlotInit /\ PureIdle

UnitBegin ==
    /\ call.st = "ready"
    /\ call' = Begin(call)
    /\ UNCHANGED <<token, progressLog, flip, settled>>
    /\ UNCHANGED <<pureVars, workerVars, ctlVars, slotVars>>

UnitStep ==
    /\ call.st = "loop"
    /\ LET c   == CancelObserved(token)
           out == IF c THEN << >> ELSE Emitted(call)
       IN /\ call' = Step(call, c)
          /\ progressLog' = progressLog \o out
          /\ IF out # << >> /\ call.op \in GenOps /\ token.present
             THEN \E f \in BOOLEAN :
                      token' = [token EXCEPT !.cancelled = token.cancelled \/ f]
             ELSE token' = token
          /\ flip' = IF flip = None /\ ~token.cancelled /\ token'.cancelled
                     THEN [type |-> "flip", at |-> call'.pos,
                           log |-> Len(progressLog')]
                     ELSE flip
    /\ UNCHANGED settled
    /\ UNCHANGED <<pureVars, workerVars, ctlVars, slotVars>>

\* the rejection the controller's await throws for a terminal message, None
\* when the promise resolves
Rejection(slot, m) ==
    CASE m.type = "complete"  -> None
      [] m.type = "cancelled" -> [type |-> "Error",
                                  message |-> IF slot = "analysis"
                                              THEN "Analysis cancelled"
                                              ELSE "Generation cancelled"]
      [] OTHER                -> [type |-> "Error", message |-> m.message]

\* catch and finally of generatePattern and of analyzeDarkness: console.error
\* is called first, for every rejection; the alert is skipped for the
\* cancellation message; finally resets the slot
Settle(slot, m) ==
    LET error == Rejection(slot, m)
    IN  [slot |-> slot,
         outcome |-> m.type,
         errorLogged |-> error # None,
         alert |-> /\ error # None
                   /\ error.message # (IF slot = "analysis" THEN "Analysis cancelled"
                                                            ELSE "Generation cancelled"),
         stored |-> error = None,
         busy |-> FALSE]

\* the call has ended: the worker's listener posts its terminal message and
\* the controller's handler settles the promise
UnitSettle ==
    /\ call.st \in {"returned", "cancelled", "error"}
    /\ call.op \in GenOps \cup AnalysisOps
    /\ settled = None
    /\ settled' = Settle(IF call.op \in AnalysisOps THEN "analysis" ELSE "generation",
                         EndPosts(call)[1])
    /\ UNCHANGED <<call, token, progressLog, flip>>
    /\ UNCHANGED <<pureVars, workerVars, ctlVars, slotVars>>

NextUnit == UnitBegin \/ UnitStep \/ UnitSettle

SpecUnit == InitUnit /\ [][NextUnit]_vars

\* ================================================================== Spec
\* Controller, DarknessAnalyzer and the three workers.  A worker handles one
\* message at a time: its listener runs a request to the end (the generators,
\* halftone loops and the darkness scan contain no await that yields to the
\* message queue) before the next queued message is looked at.
SysSizes == {[w |-> 4, h |-> 2]}
ImportSizes == {[w |-> 3, h |-> 1]}
SysIterations == {0, 1}
SysRadiusTenths == {14}
SysMethods == {"threshold", "floyd-steinberg", "ordered"}
PatternIds == GenOps \cup {"spiral"}

\* the cases of the switch in renderPattern
Dispatched == {"random", "noise", "benday", "hilbert"}

RenderPattern(kind, it, w, h) ==
    IF kind \in Dispatched
    THEN Begin(NewCall(kind, w, h, it, 14))
    ELSE [NewCall(kind, w, h, it, 14) EXCEPT !.st = "error",
                                              !.err = "Unknown pattern type"]

\* the call a worker makes for a request message
Handle(w, m) ==
    CASE m.type = "render"  -> RenderPattern(m.pattern, m.iters, m.w, m.h)
      [] m.type = "apply"   -> Begin(NewCall(m.method, m.w, m.h, 1, 14))
      [] m.type = "analyze" -> Begin(NewCall("analysis", m.w, m.h, 1, m.radiusTenths))

RequestType(w) ==
    CASE w = "pattern"  -> "render"
      [] w = "halftone" -> "apply"
      [] w = "analysis" -> "analyze"

ProgressMsgs(ps) == [i \in 1..Len(ps) |-> [type |-> "progress", p |-> ps[i]]]

\* ---- worker message loop
\* posted[w] records every message worker w posts for the current request.
\* outbox[w] holds the posted messages whose delivery changes controller state:
\* the terminal messages of the two workers the controller listens to (a
\* 'progress' message only moves a progress bar, which is not part of the state).
Listened == {"pattern", "analysis"}

\* a listener that does not reset the flag when it accepts a request
WorkerAcceptKeepingFlag(w) ==
    /\ alive[w] /\ task[w] = None /\ inbox[w] # << >>
    /\ Head(inbox[w]).type = RequestType(w)
    /\ inbox' = [inbox EXCEPT ![w] = Tail(inbox[w])]
    /\ cancelled' = cancelled
    /\ task' = [task EXCEPT ![w] = Handle(w, Head(inbox[w]))]
    /\ posted' = [posted EXCEPT ![w] = << [type |-> "request", stale |-> cancelled[w]] >>]
    /\ cancelMid' = [cancelMid EXCEPT ![w] = FALSE]
    /\ UNCHANGED <<outbox, alive>>
    /\ UNCHANGED <<pureVars, unitVars, ctlVars, slotVars>>

\* the request record in posted[w] keeps the value the flag had on arrival
\* (stale: a 'cancel' was handled while no request was running)
WorkerAccept(w) ==
    /\ alive[w] /\ task[w] = None /\ inbox[w] # << >>
    /\ Head(inbox[w]).type = RequestType(w)
    /\ inbox' = [inbox EXCEPT ![w] = Tail(inbox[w])]
    /\ cancelled' = [cancelled EXCEPT ![w] = FALSE]
    /\ task' = [task EXCEPT ![w] = Handle(w, Head(inbox[w]))]
    /\ posted' = [posted EXCEPT ![w] = << [type |-> "request", stale |-> cancelled[w]] >>]
    /\ cancelMid' = [cancelMid EXCEPT ![w] = FALSE]
    /\ UNCHANGED <<outbox, alive>>
    /\ UNCHANGED <<pureVars, unitVars, ctlVars, slotVars>>

WorkerCancelMsg(w) ==
    /\ alive[w] /\ task[w] = None /\ inbox[w] # << >>
    /\ Head(inbox[w]).type = "cancel"
    /\ inbox' = [inbox EXCEPT ![w] = Tail(inbox[w])]
    /\ cancelled' = [cancelled EXCEPT ![w] = TRUE]
    /\ UNCHANGED <<task, outbox, posted, cancelMid, alive>>
    /\ UNCHANGED <<pureVars, unitVars, ctlVars, slotVars>>

WorkerStep(w) ==
    /\ alive[w] /\ task[w] # None /\ task[w].st = "loop"
    /\ LET c   == CancelObserved([present |-> TRUE, cancelled |-> cancelled[w]])
           out == IF c THEN << >> ELSE ProgressMsgs(Emitted(task[w]))
       IN /\ task' = [task EXCEPT ![w] = Step(task[w], c)]
          /\ posted' = [posted EXCEPT ![w] = posted[w] \o out]
    /\ UNCHANGED <<inbox, cancelled, outbox, cancelMid, alive>>
    /\ UNCHANGED <<pureVars, unitVars, ctlVars, slotVars>>

WorkerFinish(w) ==
    /\ alive[w] /\ task[w] # None /\ task[w].st \in {"returned", "cancelled", "error"}
    /\ task' = [task EXCEPT ![w] = None]
    /\ outbox' = [outbox EXCEPT ![w] = IF w \in Listened
                                       THEN outbox[w] \o EndPosts(task[w])
                                       ELSE outbox[w]]
    /\ posted' = [posted EXCEPT ![w] = posted[w] \o EndPosts(task[w])]
    /\ UNCHANGED <<inbox, cancelled, cancelMid, alive>>
    /\ UNCHANGED <<pureVars, unitVars, ctlVars, slotVars>>

\* posting 'cancel' to a worker; remembers whether a request was in its loop
PostCancel(w) ==
    /\ Len(inbox[w]) < MaxInbox
    /\ inbox' = [inbox EXCEPT ![w] = Append(inbox[w], [type |-> "cancel"])]
    /\ cancelMid' = [cancelMid EXCEPT
                        ![w] = cancelMid[w] \/ (task[w] # None /\ task[w].st = "loop")]

\* ---- the analysis canvas (app.js, overlay-renderer.js)
\* a canvas holds the image drawn into it and the overlay drawn over it
Canvas(base, over) == [type |-> "canvas", base |-> base, overlay |-> over]

\* the overlay generated from a result's darkness map at the size of the
\* base image; `of` is the image the result was computed from
OverlayFor(res, baseImage) ==
    [type |-> "overlay", of |-> res.img, base |-> baseImage,
     w |-> baseImage.w, h |-> baseImage.h]

\* creates a new canvas, draws the base canvas and then the overlay into
\* it, and returns the new canvas; the base canvas is only read
compositeOverlay(baseCanvas, over) == Canvas(baseCanvas.base, over)

\* renderAnalysisResult: the analysis canvas and the overlay generated.  The
\* statement `compositeOverlay(canvas, overlayCanvas);` assigns the canvas it
\* returns to nothing, so the analysis canvas keeps what putImageData drew
renderAnalysisResult(canvas, over, res, imported, generated, show) ==
    LET baseImage == IF imported # None THEN imported ELSE generated
        drawn == Canvas(baseImage, None)
        composited == compositeOverlay(drawn, OverlayFor(res, baseImage))
    IN  IF res = None \/ baseImage = None
        THEN [canvas |-> canvas, overlayCanvas |-> over]
        ELSE IF show
             THEN [canvas |-> drawn, overlayCanvas |-> composited.overlay]
             ELSE [canvas |-> drawn, overlayCanvas |-> None]

\* change listener of the show-overlay checkbox
ToggleOverlay ==
    /\ opsLeft > 0
    /\ opsLeft' = opsLeft - 1
    /\ showOverlay' = ~showOverlay
    /\ LET r == renderAnalysisResult(analysisCanvas, overlayCanvas, analysisResult,
                                     importedPattern, generatedPattern, showOverlay')
       IN /\ analysisCanvas' = r.canvas
          /\ overlayCanvas' = r.overlayCanvas
    /\ UNCHANGED <<gen, generatedPattern, importedPattern, analysisUI, analyzer,
                   awaiting, analysisResult, lastAlert, lastError, analyzeCalls>>
    /\ UNCHANGED <<pureVars, unitVars, workerVars, slotVars>>

\* ---- generation slot (app.js)
GenIdle(downloadDisabled) ==
    [pending |-> FALSE, isGenerating |-> FALSE, btnDisabled |-> FALSE,
     cancelVisible |-> FALSE, downloadDisabled |-> downloadDisabled]

GenerateClick(kind, it, size, valid) ==
    /\ ~gen.btnDisabled
    /\ IF ~valid
       THEN /\ lastAlert' = "Invalid size"
            /\ UNCHANGED <<gen, opsLeft, workerVars>>
       ELSE /\ opsLeft > 0
            /\ opsLeft' = opsLeft - 1
            /\ gen' = [pending |-> TRUE, isGenerating |-> TRUE, btnDisabled |-> TRUE,
                       cancelVisible |-> TRUE, downloadDisabled |-> TRUE]
            /\ alive' = [alive EXCEPT !["pattern"] = TRUE]
            /\ inbox' = [inbox EXCEPT !["pattern"] =
                            Append(inbox["pattern"],
                                   [type |-> "render", pattern |-> kind, iters |-> it,
                                    w |-> size.w, h |-> size.h])]
            /\ UNCHANGED <<lastAlert, task, cancelled, outbox, posted, cancelMid>>
    /\ UNCHANGED <<generatedPattern, importedPattern, analysisUI, analyzer, awaiting,
                   analysisResult, lastError, analyzeCalls>>
    /\ UNCHANGED viewVars
    /\ UNCHANGED <<pureVars, unitVars, slotVars>>

CancelGenerateClick ==
    /\ gen.cancelVisible
    /\ alive["pattern"]
    /\ PostCancel("pattern")
    /\ UNCHANGED <<task, cancelled, outbox, posted, alive>>
    /\ UNCHANGED <<pureVars, unitVars, ctlVars, slotVars>>

\* the listener generatePattern attached, and the code after its await
DeliverPattern ==
    /\ outbox["pattern"] # << >>
    /\ outbox' = [outbox EXCEPT !["pattern"] = Tail(outbox["pattern"])]
    /\ LET m == Head(outbox["pattern"])
       IN IF ~gen.pending
          THEN UNCHANGED <<gen, generatedPattern, analysisUI, lastAlert, analysisCanvas>>
          ELSE CASE m.type = "complete" ->
                      /\ generatedPattern' = m.img
                      /\ analysisCanvas' = Canvas(m.img, None)
                      /\ analysisUI' = [analysisUI EXCEPT !.btnDisabled = FALSE]
                      /\ gen' = GenIdle(FALSE)
                      /\ UNCHANGED lastAlert
                 [] m.type = "error" ->
                      /\ lastAlert' = "Failed to generate pattern"
                      /\ gen' = GenIdle(gen.downloadDisabled)
                      /\ UNCHANGED <<generatedPattern, analysisUI, analysisCanvas>>
                 [] OTHER ->
                      /\ gen' = GenIdle(gen.downloadDisabled)
                      /\ UNCHANGED <<generatedPattern, analysisUI, lastAlert,
                                     analysisCanvas>>
    /\ UNCHANGED <<inbox, task, cancelled, posted, cancelMid, alive>>
    /\ UNCHANGED <<importedPattern, analyzer, awaiting, analysisResult, lastError,
                   analyzeCalls, opsLeft, showOverlay, overlayCanvas>>
    /\ UNCHANGED <<pureVars, unitVars, slotVars>>

\* ---- analysis slot (app.js) and DarknessAnalyzer
ImportPattern(size) ==
    /\ importedPattern' = Image("import", size.w, size.h)
    /\ analysisCanvas' = Canvas(importedPattern', None)
    /\ analysisUI' = [analysisUI EXCEPT !.btnDisabled = FALSE]
    /\ UNCHANGED <<showOverlay, overlayCanvas>>
    /\ UNCHANGED <<gen, generatedPattern, analyzer, awaiting, analysisResult,
                   lastAlert, lastError, analyzeCalls, opsLeft>>
    /\ UNCHANGED <<pureVars, unitVars, workerVars, slotVars>>

AnalysisIdle == [isAnalyzing |-> FALSE, btnDisabled |-> FALSE, cancelVisible |-> FALSE]

\* a cleanup that resets the flag and keeps the worker
CleanupKeepingWorker(an) == [isAnalyzing |-> FALSE, worker |-> an.worker]

\* DarknessAnalyzer.cleanup
Cleanup(an) == [isAnalyzing |-> FALSE, worker |-> FALSE]

\* DarknessAnalyzer.analyze called while isAnalyzing: the check throws before
\* the try block is entered, so the finally clause does not run
AnalyzeWhileBusyInsideTry(an) == Cleanup(an)

AnalyzeWhileBusy(an) == an

\* worker.terminate(): the worker and its queued messages are gone
TerminateAnalysisWorker ==
    /\ alive' = [alive EXCEPT !["analysis"] = FALSE]
    /\ inbox' = [inbox EXCEPT !["analysis"] = << >>]
    /\ outbox' = [outbox EXCEPT !["analysis"] = << >>]
    /\ task' = [task EXCEPT !["analysis"] = None]
    /\ cancelled' = [cancelled EXCEPT !["analysis"] = FALSE]

\* created: new Worker(...) returns a worker (FALSE: it throws)
AnalyzeClick(rt, created) ==
    /\ ~analysisUI.btnDisabled
    /\ opsLeft > 0
    /\ LET img == IF importedPattern # None THEN importedPattern ELSE generatedPattern
       IN IF img = None
          THEN /\ lastAlert' = "Please generate or import a pattern first"
               /\ UNCHANGED <<analysisUI, analyzer, awaiting, lastError, analyzeCalls,
                              opsLeft, workerVars>>
          ELSE /\ opsLeft' = opsLeft - 1
               /\ analyzeCalls' = analyzeCalls + 1
               /\ IF analyzer.isAnalyzing
                  THEN /\ analyzer' = AnalyzeWhileBusy(analyzer)
                       /\ lastError' = "Analysis already in progress"
                       /\ lastAlert' = "Analysis failed"
                       /\ analysisUI' = AnalysisIdle
                       /\ IF analyzer'.worker
                          THEN UNCHANGED <<alive, inbox, outbox, task, cancelled>>
                          ELSE TerminateAnalysisWorker
                       /\ UNCHANGED <<awaiting, posted, cancelMid>>
                  ELSE IF ~created
                  THEN /\ analyzer' = Cleanup([isAnalyzing |-> TRUE, worker |-> FALSE])
                       /\ lastError' = "Worker creation failed"
                       /\ lastAlert' = "Analysis failed"
                       /\ analysisUI' = AnalysisIdle
                       /\ UNCHANGED <<alive, inbox, outbox, task, cancelled>>
                       /\ UNCHANGED <<awaiting, posted, cancelMid>>
                  ELSE /\ analyzer' = [isAnalyzing |-> TRUE, worker |-> TRUE]
                       /\ analysisUI' = [isAnalyzing |-> TRUE, btnDisabled |-> TRUE,
                                         cancelVisible |-> TRUE]
                       /\ awaiting' = [type |-> "promise", img |-> img]
                       /\ alive' = [alive EXCEPT !["analysis"] = TRUE]
                       /\ inbox' = [inbox EXCEPT !["analysis"] =
                                       << [type |-> "analyze", w |-> img.w, h |-> img.h,
                                           radiusTenths |-> rt] >>]
                       /\ outbox' = [outbox EXCEPT !["analysis"] = << >>]
                       /\ task' = [task EXCEPT !["analysis"] = None]
                       /\ cancelled' = [cancelled EXCEPT !["analysis"] = FALSE]
                       /\ UNCHANGED <<lastAlert, lastError, posted, cancelMid>>
    /\ UNCHANGED <<gen, generatedPattern, importedPattern, analysisResult>>
    /\ UNCHANGED viewVars
    /\ UNCHANGED <<pureVars, unitVars, slotVars>>

CancelAnalysisClick ==
    /\ analysisUI.cancelVisible
    /\ analyzer.worker
    /\ PostCancel("analysis")
    /\ UNCHANGED <<task, cancelled, outbox, posted, alive>>
    /\ UNCHANGED <<pureVars, unitVars, ctlVars, slotVars>>

\* worker.onmessage set by analyze(), then finally/cleanup and the code after
\* the await in the controller's analyzeDarkness
DeliverAnalysis ==
    /\ alive["analysis"] /\ outbox["analysis"] # << >>
    /\ LET m == Head(outbox["analysis"])
       IN /\ TerminateAnalysisWorker
          /\ analyzer' = Cleanup(analyzer)
          /\ awaiting' = None
          /\ analysisUI' = AnalysisIdle
          /\ CASE m.type = "complete" ->
                    /\ analysisResult' = [type |-> "result", img |-> awaiting.img]
                    /\ LET r == renderAnalysisResult(analysisCanvas, overlayCanvas,
                                                     analysisResult', importedPattern,
                                                     generatedPattern, showOverlay)
                       IN /\ analysisCanvas' = r.canvas
                          /\ overlayCanvas' = r.overlayCanvas
                    /\ lastError' = "none"
                    /\ UNCHANGED lastAlert
               [] m.type = "cancelled" ->
                    /\ lastError' = "Analysis cancelled"
                    /\ UNCHANGED <<analysisResult, lastAlert, analysisCanvas,
                                   overlayCanvas>>
               [] OTHER ->
                    /\ lastError' = m.message
                    /\ lastAlert' = "Analysis failed"
                    /\ UNCHANGED <<analysisResult, analysisCanvas, overlayCanvas>>
    /\ UNCHANGED showOverlay
    /\ UNCHANGED <<posted, cancelMid>>
    /\ UNCHANGED <<gen, generatedPattern, importedPattern, analyzeCalls, opsLeft>>
    /\ UNCHANGED <<pureVars, unitVars, slotVars>>

\* worker.onerror set by analyze(): the worker's script fails before the
\* listener has taken the request; the promise rejects, then finally/cleanup
\* and the controller's catch and finally
AnalysisWorkerError ==
    /\ alive["analysis"] /\ awaiting # None
    /\ task["analysis"] = None /\ inbox["analysis"] # << >>
    /\ Head(inbox["analysis"]).type = "analyze"
    /\ TerminateAnalysisWorker
    /\ analyzer' = Cleanup(analyzer)
    /\ awaiting' = None
    /\ analysisUI' = AnalysisIdle
    /\ lastError' = "Worker error"
    /\ lastAlert' = "Analysis failed"
    /\ UNCHANGED <<posted, cancelMid>>
    /\ UNCHANGED <<gen, generatedPattern, importedPattern, analysisResult,
                   analyzeCalls, opsLeft>>
    /\ UNCHANGED viewVars
    /\ UNCHANGED <<pureVars, unitVars, slotVars>>

\* ---- a client of the halftone worker
ClientApply(method, size) ==
    /\ opsLeft > 0
    /\ opsLeft' = opsLeft - 1
    /\ inbox' = [inbox EXCEPT !["halftone"] =
                    Append(inbox["halftone"],
                           [type |-> "apply", method |-> method,
                            w |-> size.w, h |-> size.h])]
    /\ UNCHANGED <<task, cancelled, outbox, posted, cancelMid, alive>>
    /\ UNCHANGED <<gen, generatedPattern, importedPattern, analysisUI, analyzer,
                   awaiting, analysisResult, lastAlert, lastError, analyzeCalls>>
    /\ UNCHANGED viewVars
    /\ UNCHANGED <<pureVars, unitVars, slotVars>>

ClientCancel ==
    /\ opsLeft > 0
    /\ opsLeft' = opsLeft - 1
    /\ PostCancel("halftone")
    /\ UNCHANGED <<task, cancelled, outbox, posted, alive>>
    /\ UNCHANGED <<gen, generatedPattern, importedPattern, analysisUI, analyzer,
                   awaiting, analysisResult, lastAlert, lastError, analyzeCalls>>
    /\ UNCHANGED viewVars
    /\ UNCHANGED <<pureVars, unitVars, slotVars>>

Init == UnitIdle /\ WorkersInit /\ CtlInit /\ SlotInit /\ PureIdle

Next ==
    \/ \E w \in Workers : WorkerAccept(w)
    \/ \E w \in Workers : WorkerCancelMsg(w)
    \/ \E w \in Workers : WorkerStep(w)
    \/ \E w \in Workers : WorkerFinish(w)
    \/ \E kind \in PatternIds, it \in SysIterations, size \in SysSizes, valid \in BOOLEAN :
          GenerateClick(kind, IF kind = "hilbert" THEN it ELSE 1, size, valid)
    \/ CancelGenerateClick
    \/ DeliverPattern
    \/ \E size \in ImportSizes : ImportPattern(size)
    \/ \E rt \in SysRadiusTenths, created \in BOOLEAN : AnalyzeClick(rt, created)
    \/ AnalysisWorkerError
    \/ CancelAnalysisClick
    \/ DeliverAnalysis
    \/ ToggleOverlay
    \/ \E method \in SysMethods, size \in SysSizes : ClientApply(method, size)
    \/ ClientCancel

Spec == Init /\ [][Next]_vars

\* ============================================================== SpecSlot
\* The controller's halftone slot: applyHalftone is an async function whose
\* loop awaits a timer eleven times; units holds the loop counter i of every
\* invocation that has not reached the end of its finally clause.
UploadImage ==
    /\ uploadedImage' = TRUE
    /\ hUI' = [hUI EXCEPT !.btnDisabled = FALSE]
    /\ UNCHANGED units
    /\ UNCHANGED <<pureVars, unitVars, workerVars, ctlVars>>

ApplyHalftoneClick ==
    /\ ~hUI.btnDisabled
    /\ Len(units) < MaxUnits
    /\ IF ~uploadedImage
       THEN /\ lastAlert' = "Please upload an image first"
            /\ UNCHANGED <<hUI, units>>
       ELSE /\ hUI' = [isApplying |-> TRUE, btnDisabled |-> TRUE,
                       cancelVisible |-> TRUE, downloadDisabled |-> TRUE]
            /\ units' = Append(units, 0)
            /\ UNCHANGED lastAlert
    /\ UNCHANGED uploadedImage
    /\ UNCHANGED <<gen, generatedPattern, importedPattern, analysisUI, analyzer,
                   awaiting, analysisResult, lastError, analyzeCalls, opsLeft>>
    /\ UNCHANGED viewVars
    /\ UNCHANGED <<pureVars, unitVars, workerVars>>

RemoveAt(seq, k) == [j \in 1..(Len(seq) - 1) |-> IF j < k THEN seq[j] ELSE seq[j + 1]]

\* the timer unit k awaits fires: timers of equal delay fire in the order they
\* were set, so a unit never overtakes one started before it
UnitTimer(k) ==
    /\ k \in 1..Len(units)
    /\ \A j \in 1..(k - 1) : units[j] > units[k]
    /\ IF units[k] + SlotLoopStep <= SlotLoopLast
       THEN /\ units' = [units EXCEPT ![k] = units[k] + SlotLoopStep]
            /\ UNCHANGED hUI
       ELSE /\ units' = RemoveAt(units, k)
            /\ hUI' = [isApplying |-> FALSE, btnDisabled |-> FALSE,
                       cancelVisible |-> FALSE, downloadDisabled |-> FALSE]
    /\ UNCHANGED uploadedImage
    /\ UNCHANGED <<pureVars, unitVars, workerVars, ctlVars>>

\* state.workers.halftone is never assigned, so there is nothing to terminate
CancelHalftoneClick ==
    /\ hUI.cancelVisible
    /\ hUI' = [hUI EXCEPT !.isApplying = FALSE, !.btnDisabled = FALSE,
                          !.cancelVisible = FALSE]
    /\ UNCHANGED <<uploadedImage, units>>
    /\ UNCHANGED <<pureVars, unitVars, workerVars, ctlVars>>

NextSlot ==
    \/ UploadImage
    \/ ApplyHalftoneClick
    \/ \E k \in 1..MaxUnits : UnitTimer(k)
    \/ CancelHalftoneClick

SpecSlot == Init /\ [][NextSlot]_vars

\* ============================================================= SpecCurve
\* The curve point generators, one pushed point per step.  Coordinates are
\* integers: the size passed is the smallest one for which every halving
\* (Hilbert, Z-order) or division by three (Peano) in the code is exact, so
\* a cell is 2 units wide and its centre is 1 unit from its corner.  The
\* index-based Hilbert generator is kept in cell units (its points are hx/n).
MaxN == 2
MortonBits == 16
PeanoCells == 9

CurveKinds == {"hilbert", "hilbertIndex", "peano", "zorder"}

RECURSIVE Flatten(_)
Flatten(ss) == IF ss = << >> THEN << >> ELSE Head(ss) \o Flatten(Tail(ss))

ExactSize(kind, n) ==
    CASE kind = "peano"        -> 2 * Pow(3, n)
      [] kind = "hilbertIndex" -> Pow(2, n)
      [] OTHER                 -> 2 * Pow(2, n)

\* distance between the centres of two neighbouring cells
Pitch(kind, n) == IF kind = "hilbertIndex" THEN 1 ELSE 2

\* ---- part_002: hilbertRecursive, generateHilbertPoints
RECURSIVE hilbertRecursive(_, _, _, _, _, _, _)
hilbertRecursive(iteration, x, y, xi, xj, yi, yj) ==
    IF iteration <= 0
    THEN << <<x + (xi + yi) \div 2, y + (xj + yj) \div 2>> >>
    ELSE hilbertRecursive(iteration - 1, x, y,
                          yi \div 2, yj \div 2, xi \div 2, xj \div 2)
         \o hilbertRecursive(iteration - 1, x + xi \div 2, y + xj \div 2,
                             xi \div 2, xj \div 2, yi \div 2, yj \div 2)
         \o hilbertRecursive(iteration - 1,
                             x + xi \div 2 + yi \div 2, y + xj \div 2 + yj \div 2,
                             xi \div 2, xj \div 2, yi \div 2, yj \div 2)
         \o hilbertRecursive(iteration - 1, x + xi \div 2 + yi, y + xj \div 2 + yj,
                             (0 - yi) \div 2, (0 - yj) \div 2,
                             (0 - xi) \div 2, (0 - xj) \div 2)

generateHilbertPointsOneLevelShort(iterations, size) ==
    hilbertRecursive(iterations - 1, 0, 0, size, 0, 0, size)

generateHilbertPoints(iterations, size) ==
    hilbertRecursive(iterations, 0, 0, size, 0, 0, size)

\* ---- part_001: HilbertPattern.rotate, hilbertIndexToXY, generateHilbertPoints
rotateWithoutFlip(n, x, y, rx, ry) ==
    IF ry = 0 THEN <<y, x>> ELSE <<x, y>>

rotate(n, x, y, rx, ry) ==
    IF ry = 0
    THEN IF rx = 1 THEN <<n - 1 - y, n - 1 - x>> ELSE <<y, x>>
    ELSE <<x, y>>

RECURSIVE IndexLoop(_, _, _, _, _)
IndexLoop(s, order, x, y, index) ==
    IF s < Pow(2, order)
    THEN LET rx == (index \div 2) % 2
             ry == (index + rx) % 2
             r  == rotate(s, x, y, rx, ry)
         IN IndexLoop(s * 2, order, r[1] + s * rx, r[2] + s * ry, index \div 4)
    ELSE <<x, y>>

hilbertIndexToXY(index, order) == IndexLoop(1, order, 0, 0, index)

HilbertPatternPoints(iterations) ==
    [k \in 1..(Pow(2, iterations) * Pow(2, iterations)) |->
        hilbertIndexToXY(k - 1, iterations)]

\* ---- noise-pattern.js: peanoRecursive, generatePeanoPoints
\* patterns[direction][i] = [dx, dy, newDir]
PeanoPatterns ==
    << << <<0, 0, 0>>, <<0, 1, 2>>, <<0, 2, 0>>,
          <<1, 2, 2>>, <<1, 1, 0>>, <<1, 0, 2>>,
          <<2, 0, 0>>, <<2, 1, 2>>, <<2, 2, 0>> >>,
       << <<2, 0, 1>>, <<1, 0, 3>>, <<0, 0, 1>>,
          <<0, 1, 3>>, <<1, 1, 1>>, <<2, 1, 3>>,
          <<2, 2, 1>>, <<1, 2, 3>>, <<0, 2, 1>> >>,
       << <<2, 2, 2>>, <<2, 1, 0>>, <<2, 0, 2>>,
          <<1, 0, 0>>, <<1, 1, 2>>, <<1, 2, 0>>,
          <<0, 2, 2>>, <<0, 1, 0>>, <<0, 0, 2>> >>,
       << <<0, 2, 3>>, <<1, 2, 1>>, <<2, 2, 3>>,
          <<2, 1, 1>>, <<1, 1, 3>>, <<0, 1, 1>>,
          <<0, 0, 3>>, <<1, 0, 1>>, <<2, 0, 3>> >> >>

RECURSIVE peanoRecursive(_, _, _, _, _)
peanoRecursive(iteration, x, y, size, direction) ==
    IF iteration = 0
    THEN << <<x + size \div 2, y + size \div 2>> >>
    ELSE LET step    == size \div 3
             pattern == PeanoPatterns[direction + 1]
         IN Flatten([i \in 1..PeanoCells |->
                        peanoRecursive(iteration - 1,
                                       x + pattern[i][1] * step,
                                       y + pattern[i][2] * step,
                                       step, pattern[i][3])])

generatePeanoPoints(iterations, size) == peanoRecursive(iterations, 0, 0, size, 0)

\* ---- part_003: mortonEncode, generateZOrderPoints
Bit(v, i) == (v \div Pow(2, i)) % 2

\* the operands of every | have no bit in common, so | is a sum
RECURSIVE MortonLoop(_, _, _)
MortonLoop(x, y, i) ==
    IF i >= MortonBits
    THEN 0
    ELSE (IF Bit(x, i) = 1 THEN Pow(2, 2 * i) ELSE 0)
         + (IF Bit(y, i) = 1 THEN Pow(2, 2 * i + 1) ELSE 0)
         + MortonLoop(x, y, i + 1)

mortonEncodeSwapped(x, y) == MortonLoop(y, x, 0)

mortonEncode(x, y) == MortonLoop(x, y, 0)

\* Array.prototype.sort with comparator a.code - b.code (stable)
RECURSIVE InsertByCode(_, _)
InsertByCode(e, sorted) ==
    IF sorted = << >> THEN << e >>
    ELSE IF e.code < Head(sorted).code
         THEN << e >> \o sorted
         ELSE << Head(sorted) >> \o InsertByCode(e, Tail(sorted))

RECURSIVE SortByCode(_)
SortByCode(seq) ==
    IF seq = << >> THEN << >>
    ELSE InsertByCode(seq[Len(seq)], SortByCode(SubSeq(seq, 1, Len(seq) - 1)))

generateZOrderPoints(iterations, size) ==
    LET gridSize == Pow(2, iterations)
        cellSize == size \div gridSize
        pointsWithCodes ==
            [k \in 1..(gridSize * gridSize) |->
                LET x == (k - 1) % gridSize
                    y == (k - 1) \div gridSize
                IN [code |-> mortonEncode(x, y),
                    x |-> x * cellSize + cellSize \div 2,
                    y |-> y * cellSize + cellSize \div 2]]
        sorted == SortByCode(pointsWithCodes)
    IN [k \in 1..Len(sorted) |-> <<sorted[k].x, sorted[k].y>>]

CurvePoints(c) ==
    CASE c.kind = "hilbert"      -> generateHilbertPoints(c.n, ExactSize(c.kind, c.n))
      [] c.kind = "hilbertIndex" -> HilbertPatternPoints(c.n)
      [] c.kind = "peano"        -> generatePeanoPoints(c.n, ExactSize(c.kind, c.n))
      [] c.kind = "zorder"       -> generateZOrderPoints(c.n, ExactSize(c.kind, c.n))

InitCurve ==
    /\ curve \in [kind : CurveKinds, n : 0..MaxN, st : {"running"}]
    /\ points = << >>
    /\ PixelIdle /\ RandIdle
    /\ UnitIdle /\ WorkersInit /\ CtlInit /\ SlotInit

CurvePush ==
    /\ curve.st = "running"
    /\ Len(points) < Len(CurvePoints(curve))
    /\ points' = Append(points, CurvePoints(curve)[Len(points) + 1])
    /\ UNCHANGED curve
    /\ UNCHANGED <<pixelVars, randVars, progVars>>

CurveReturn ==
    /\ curve.st = "running"
    /\ Len(points) = Len(CurvePoints(curve))
    /\ curve' = [curve EXCEPT !.st = "returned"]
    /\ UNCHANGED points
    /\ UNCHANGED <<pixelVars, randVars, progVars>>

NextCurve == CurvePush \/ CurveReturn

SpecCurve == InitCurve /\ [][NextCurve]_vars

\* ============================================================== SpecPixel
\* The pixel arithmetic of the halftone worker, the analysis worker and the
\* overlay renderer, applied to small images.  A buffer is a record
\* [width, height, data]; data holds one <<r, g, b, a>> per pixel, row by
\* row.  The source computes in IEEE doubles; the model computes in exact
\* integers and carries the one rounding fact that changes a comparison on
\* the colours used here (RoundsBelow).
MaxImgW == 2

ImgHeights == {1, 2}

Black == <<0, 0, 0, 255>>

White == <<255, 255, 255, 255>>

Mid == <<128, 128, 128, 255>>

\* a colour whose channels differ: red 250, luma 89
Tint == <<250, 0, 125, 255>>

Fills == {"white", "black", "mid", "tint", "checker", "mixed"}

Fill(f, x, y) ==
    CASE f = "white"   -> White
      [] f = "black"   -> Black
      [] f = "mid"     -> Mid
      [] f = "tint"    -> Tint
      [] f = "checker" -> IF (x + y) % 2 = 0 THEN Black ELSE White
      [] f = "mixed"   -> IF (x + y) % 2 = 0 THEN Tint ELSE Mid

MakeImage(w, h, f) ==
    [width |-> w, height |-> h,
     data |-> [i \in 1..(w * h) |-> Fill(f, (i - 1) % w, (i - 1) \div w)]]

Images == {MakeImage(w, h, f) : w \in 1..MaxImgW, h \in ImgHeights, f \in Fills}

\* patterns smaller than, as large as, and shaped unlike the image
PatternImages ==
    {MakeImage(1, 1, "mid"), MakeImage(2, 1, "checker"), MakeImage(1, 2, "mixed")}

Contrasts == {0, 50, -50}

Brightnesses == {0, 20, -20}

\* new ImageData(w, h): transparent black
ImageData(w, h) ==
    [width |-> w, height |-> h, data |-> [i \in 1..(w * h) |-> <<0, 0, 0, 0>>]]

\* 0.299 r + 0.587 g + 0.114 b, in thousandths
Luma1000(p) == 299 * p[1] + 587 * p[2] + 114 * p[3]

\* colours whose luma, summed in doubles, lies just below its exact value
\* (0.299*128 + 0.587*128 + 0.114*128 evaluates to 127.99999999999999)
RoundsBelow == {Mid}

\* gray < num/den as the source evaluates it
GrayBelow(p, num, den) ==
    \/ Luma1000(p) * den < 1000 * num
    \/ Luma1000(p) * den = 1000 * num /\ p \in RoundsBelow

\* Math.floor((gray * patternValue) / 255)
BlendFloor(p, patternValue) ==
    LET exact == (Luma1000(p) * patternValue) \div 255000
    IN  IF /\ (Luma1000(p) * patternValue) % 255000 = 0
           /\ p \in RoundsBelow
           /\ patternValue > 0
        THEN exact - 1
        ELSE exact

PatternValue(pat, x, y) ==
    pat.data[((y % pat.height) * pat.width + (x % pat.width)) + 1][1]

ThresholdOrBlendOutput(img, pat, method, x, y) ==
    LET p == img.data[y * img.width + x + 1]
        patternValue == PatternValue(pat, x, y)
    IN  CASE method = "threshold" ->
               IF GrayBelow(p, patternValue, 1) THEN 0 ELSE 255
          [] method = "blend" -> BlendFloor(p, patternValue)

bayerMatrix ==
    << <<0,  48, 12, 60, 3,  51, 15, 63>>,
       <<32, 16, 44, 28, 35, 19, 47, 31>>,
       <<8,  56, 4,  52, 11, 59, 7,  55>>,
       <<40, 24, 36, 20, 43, 27, 39, 23>>,
       <<2,  50, 14, 62, 1,  49, 13, 61>>,
       <<34, 18, 46, 30, 33, 17, 45, 29>>,
       <<10, 58, 6,  54, 9,  57, 5,  53>>,
       <<42, 26, 38, 22, 41, 25, 37, 21>> >>

\* the threshold read from the pattern instead of the Bayer matrix
OrderedOutputFromPattern(img, pat, x, y) ==
    IF GrayBelow(img.data[y * img.width + x + 1], PatternValue(pat, x, y), 1)
    THEN 0 ELSE 255

\* gray < (bayerMatrix[y % 8][x % 8] / 64) * 255
OrderedOutput(img, pat, x, y) ==
    IF GrayBelow(img.data[y * img.width + x + 1],
                 bayerMatrix[(y % 8) + 1][(x % 8) + 1] * 255, 64)
    THEN 0 ELSE 255

\* grayValues holds sixteenths of sixteenths: every value is multiplied by
\* FSScale so that each error * k / 16 is an integer.  The Float32Array of
\* the source rounds each stored value to 24 bits; on the images used here
\* that rounding never changes a comparison with 128.
FSScale(img) == Pow(16, img.width * img.height - 1)

\* the grayscale conversion that fills the working copy
FSGray(img) ==
    [i \in 1..(img.width * img.height) |->
        (Luma1000(img.data[i]) \div 1000) * FSScale(img)]

FSNewPixel(img, gray, i) == IF gray[i + 1] < 128 * FSScale(img) THEN 0 ELSE 255

\* the weights of the two lower neighbours exchanged
FSDiffuseSwappedWeights(img, gray, i) ==
    LET w == img.width
        h == img.height
        x == i % w
        y == i \div w
        error == gray[i + 1] - FSNewPixel(img, gray, i) * FSScale(img)
        part(k) == (error \div 16) * k
        share(j) ==
            IF j = i + 1 /\ x + 1 < w THEN part(7)
            ELSE IF j = i + w - 1 /\ y + 1 < h /\ x > 0 THEN part(5)
            ELSE IF j = i + w /\ y + 1 < h THEN part(3)
            ELSE IF j = i + w + 1 /\ y + 1 < h /\ x + 1 < w THEN part(1)
            ELSE 0
    IN  [j \in 1..(w * h) |-> gray[j] + share(j - 1)]

\* the working copy after the error of pixel i (0-based) is distributed
FSDiffuse(img, gray, i) ==
    LET w == img.width
        h == img.height
        x == i % w
        y == i \div w
        error == gray[i + 1] - FSNewPixel(img, gray, i) * FSScale(img)
        part(k) == (error \div 16) * k
        share(j) ==
            IF j = i + 1 /\ x + 1 < w THEN part(7)
            ELSE IF j = i + w - 1 /\ y + 1 < h /\ x > 0 THEN part(3)
            ELSE IF j = i + w /\ y + 1 < h THEN part(5)
            ELSE IF j = i + w + 1 /\ y + 1 < h /\ x + 1 < w THEN part(1)
            ELSE 0
    IN  [j \in 1..(w * h) |-> gray[j] + share(j - 1)]

Gray4(v) == <<v, v, v, 255>>

\* output of one pass of the pixel loop of applyHalftone for pixel i
HalftoneOutput(method, img, pat, gray, i) ==
    LET x == i % img.width
        y == i \div img.width
    IN  CASE method = "floyd-steinberg" -> FSNewPixel(img, gray, i)
          [] method = "ordered"         -> OrderedOutput(img, pat, x, y)
          [] OTHER -> ThresholdOrBlendOutput(img, pat, method, x, y)

\* Uint8ClampedArray store of num/den (den > 0): clamp, round half to even
ClampedStore(num, den) ==
    LET q == num \div den
        r == num % den
    IN  IF num <= 0 THEN 0
        ELSE IF num >= 255 * den THEN 255
        ELSE IF 2 * r < den THEN q
        ELSE IF 2 * r > den THEN q + 1
        ELSE IF q % 2 = 0 THEN q ELSE q + 1

\* contrastFactor * (r - 128) + 128 + brightness * 2.55 as the fraction
\* AdjustNum / AdjustDen
AdjustDen(contrast) == 20 * 255 * (259 - contrast)

AdjustNum(r, contrast, brightness) ==
    20 * 259 * (contrast + 255) * (r - 128)
    + 128 * AdjustDen(contrast)
    + 51 * brightness * 255 * (259 - contrast)

\* the value data[i] holds after the assignment
AdjustedValue(r, contrast, brightness) ==
    ClampedStore(AdjustNum(r, contrast, brightness), AdjustDen(contrast))

\* the pass skipped whatever the sliders say
applyContrastBrightnessSkipped(buf, contrast, brightness) == buf

\* writes r, g, b of every pixel of the buffer it is given; alpha is kept
applyContrastBrightness(buf, contrast, brightness) ==
    [buf EXCEPT !.data =
        [i \in 1..Len(buf.data) |->
            LET v == AdjustedValue(buf.data[i][1], contrast, brightness)
            IN  <<v, v, v, buf.data[i][4]>>]]

\* the buffer posted with 'complete'
Adjusted(buf, contrast, brightness) ==
    IF contrast # 0 \/ brightness # 0
    THEN applyContrastBrightness(buf, contrast, brightness)
    ELSE buf

HalftoneJobs ==
    [op : HalftoneMethods, contrast : Contrasts, brightness : Brightnesses,
     radiusTenths : {0}, upper : {0}, lower : {0}, pos : {0}, st : {"posted"}]

\* the source buffer after pixel i is processed in place
SourceAfterPixelInPlace(method, img, pat, gray, i) ==
    [img EXCEPT !.data[i + 1] = Gray4(HalftoneOutput(method, img, pat, gray, i))]

\* the source buffer after pixel i is processed: the loops read
\* imageData.data and assign to result.data and grayValues only
SourceAfterPixel(method, img, pat, gray, i) == img

\* one run of the 'apply' handler: its buffers
HalftoneRun(pat) == [patternData |-> pat, grayValues |-> << >>, result |-> None]

PixelCount(img) == img.width * img.height

RunBegin(method, img) ==
    [grayValues |-> IF method = "floyd-steinberg" THEN FSGray(img) ELSE << >>,
     result |-> ImageData(img.width, img.height)]

RunPixel(method, img, pat, gray, res, i) ==
    [grayValues |-> IF method = "floyd-steinberg"
                    THEN FSDiffuse(img, gray, i) ELSE gray,
     result |-> [res EXCEPT !.data[i + 1] =
                    Gray4(HalftoneOutput(method, img, pat, gray, i))]]

IsHalftone == job # None /\ job.op \in HalftoneMethods

\* applyHalftone entered: working copy and result buffer created
HalftoneBegin ==
    /\ IsHalftone /\ job.st = "posted"
    /\ LET b == RunBegin(job.op, imageData)
       IN  /\ grayValues' = b.grayValues
           /\ result' = b.result
           /\ twin' = [twin EXCEPT !.grayValues = b.grayValues,
                                   !.result = b.result]
    /\ job' = [job EXCEPT !.st = "running"]
    /\ UNCHANGED <<imageData, patternData, given, delivered, darknessMap,
                   tally, overlay>>
    /\ UNCHANGED <<curveVars, randVars, progVars>>

\* one pass of the inner loop
HalftonePixel ==
    /\ IsHalftone /\ job.st = "running"
    /\ job.pos < PixelCount(imageData)
    /\ LET a == RunPixel(job.op, imageData, patternData, grayValues, result,
                         job.pos)
           t == RunPixel(job.op, imageData, twin.patternData, twin.grayValues,
                         twin.result, job.pos)
       IN  /\ grayValues' = a.grayValues
           /\ result' = a.result
           /\ twin' = [twin EXCEPT !.grayValues = t.grayValues,
                                   !.result = t.result]
    /\ imageData' = SourceAfterPixel(job.op, imageData, patternData,
                                     grayValues, job.pos)
    /\ job' = [job EXCEPT !.pos = job.pos + 1]
    /\ UNCHANGED <<patternData, given, delivered, darknessMap, tally, overlay>>
    /\ UNCHANGED <<curveVars, randVars, progVars>>

\* loop left: optional contrast/brightness pass on the result, then 'complete'
HalftoneFinish ==
    /\ IsHalftone /\ job.st = "running"
    /\ job.pos = PixelCount(imageData)
    /\ result' = Adjusted(result, job.contrast, job.brightness)
    /\ twin' = [twin EXCEPT !.result =
                   Adjusted(twin.result, job.contrast, job.brightness)]
    /\ delivered' = [type |-> "complete", imageData |-> result']
    /\ job' = [job EXCEPT !.st = "done"]
    /\ UNCHANGED <<imageData, patternData, given, grayValues, darknessMap,
                   tally, overlay>>
    /\ UNCHANGED <<curveVars, randVars, progVars>>

\* ---- analyzeDarkness on a buffer; thresholds are given in thousandths,
\*      a darkness value is the fraction darkCount / totalCount.  The
\*      source holds it as a double and stores it in a Float32Array; with
\*      windows of fewer than ten pixels no sample equals 0.3 or 0.7, and
\*      0, 1/2 and 1 are stored exactly, so every comparison with a
\*      threshold agrees with the comparison of the fractions.
PixelRadiusTenths == {0, 14, 80}

UpperThresholds == {0, 700, 1000}

LowerThresholds == {0, 300, 1000}

AnalysisJobs ==
    [op : {"analyze"}, contrast : {0}, brightness : {0},
     radiusTenths : PixelRadiusTenths, upper : UpperThresholds,
     lower : LowerThresholds, pos : {0}, st : {"posted"}]

\* width, height and radius as the grid computations read them
Grid(j, img) ==
    [radiusTenths |-> j.radiusTenths, w |-> img.width, h |-> img.height]

createCircularMask(radius) ==
    {m \in (-radius..radius) \X (-radius..radius) :
        m[1] * m[1] + m[2] * m[2] <= radius * radius}

\* a pixel counted dark when its red channel is at least 128
IsDarkInverted(p) == p[1] >= 128

\* const gray = data[idx]; gray < 128
IsDark(p) == p[1] < 128

calculateLocalDarkness(img, cx, cy, mask) ==
    LET inside == {m \in mask : /\ cx + m[1] >= 0 /\ cx + m[1] < img.width
                                /\ cy + m[2] >= 0 /\ cy + m[2] < img.height}
        dark == {m \in inside :
                    IsDark(img.data[(cy + m[2]) * img.width + (cx + m[1]) + 1])}
    IN  IF Cardinality(inside) > 0
        THEN Frac(Cardinality(dark), Cardinality(inside))
        ELSE Frac(0, 1)

RECURSIVE Gcd(_, _)
Gcd(a, b) == IF b = 0 THEN a ELSE Gcd(b, a % b)

FracAdd(a, b) ==
    LET n == a[1] * b[2] + b[1] * a[2]
        d == a[2] * b[2]
        g == Gcd(n, d)
    IN  Frac(n \div g, d \div g)

\* darkness > threshold, darkness < threshold (threshold in thousandths)
Above(d, threshold) == d[1] * 1000 > threshold * d[2]

Below(d, threshold) == d[1] * 1000 < threshold * d[2]

NewTally ==
    [tooDark |-> 0, tooLight |-> 0, balanced |-> 0,
     totalDarkness |-> Frac(0, 1), sampleCount |-> 0]

\* the counters when the two threshold tests are made independently
CountedIndependently(t, d, upper, lower) ==
    LET s == [t EXCEPT !.totalDarkness = FracAdd(t.totalDarkness, d),
                       !.sampleCount = t.sampleCount + 1]
        u == IF Above(d, upper) THEN [s EXCEPT !.tooDark = s.tooDark + 1] ELSE s
        v == IF Below(d, lower) THEN [u EXCEPT !.tooLight = u.tooLight + 1] ELSE u
    IN  IF ~Above(d, upper) /\ ~Below(d, lower)
        THEN [v EXCEPT !.balanced = v.balanced + 1] ELSE v

\* the counters after a sample of darkness d
Counted(t, d, upper, lower) ==
    LET s == [t EXCEPT !.totalDarkness = FracAdd(t.totalDarkness, d),
                       !.sampleCount = t.sampleCount + 1]
    IN  IF Above(d, upper) THEN [s EXCEPT !.tooDark = s.tooDark + 1]
        ELSE IF Below(d, lower) THEN [s EXCEPT !.tooLight = s.tooLight + 1]
        ELSE [s EXCEPT !.balanced = s.balanced + 1]

\* (count / sampleCount) * 100 is evaluated in doubles: PercentDev is the
\* double minus the exact value 100 * count / sampleCount, in units of
\* 1 / (sampleCount * 2^52), for up to six samples (row sampleCount,
\* column count + 1); 33.33333333333333 is the double for one of three
PercentDev ==
    << <<0, 0>>,
       <<0, 0, 0>>,
       <<0, -64, -128, 0>>,
       <<0, 0, 0, 0, 0>>,
       <<0, 0, 0, 0, 0, 0>>,
       <<0, -64, -128, 0, -256, 256, 0>> >>

\* the rounding of one percentage; with sampleCount = 0 the quotient is 0/0
\* (kept as the fraction count*100 / 0) and no rounding is recorded
PercentRounding(count, sampleCount) ==
    IF sampleCount \in DOMAIN PercentDev THEN PercentDev[sampleCount][count + 1] ELSE 0

\* the statistics of the 'complete' message; every percentage is the exact
\* fraction, its rounding is kept beside it
finalStats(t) ==
    [meanDarkness |-> Frac(t.totalDarkness[1],
                           t.totalDarkness[2] * t.sampleCount),
     tooDarkPixels |-> t.tooDark,
     tooLightPixels |-> t.tooLight,
     balancedPixels |-> t.balanced,
     percentTooDark |-> Frac(t.tooDark * 100, t.sampleCount),
     percentTooLight |-> Frac(t.tooLight * 100, t.sampleCount),
     percentBalanced |-> Frac(t.balanced * 100, t.sampleCount),
     rounding |-> [tooDark |-> PercentRounding(t.tooDark, t.sampleCount),
                   tooLight |-> PercentRounding(t.tooLight, t.sampleCount),
                   balanced |-> PercentRounding(t.balanced, t.sampleCount)]]

IsAnalysis == job # None /\ job.op = "analyze"

\* analyzeDarkness entered: map and counters created
AnalysisBegin ==
    /\ IsAnalysis /\ job.st = "posted"
    /\ darknessMap' = [i \in 1..TotalSamples(Grid(job, imageData)) |-> Frac(0, 1)]
    /\ tally' = NewTally
    /\ job' = [job EXCEPT !.st = "running"]
    /\ UNCHANGED <<imageData, patternData, given, grayValues, result, twin,
                   delivered, overlay>>
    /\ UNCHANGED <<curveVars, randVars, progVars>>

\* one pass of the sample loop
AnalysisSample ==
    /\ IsAnalysis /\ job.st = "running"
    /\ job.pos < TotalSamples(Grid(job, imageData))
    /\ LET g == Grid(job, imageData)
           radius == RoundTenths(job.radiusTenths)
           sx == job.pos % SamplesWide(g)
           sy == job.pos \div SamplesWide(g)
           darkness == calculateLocalDarkness(imageData, sx * Stride(g),
                           sy * Stride(g), createCircularMask(radius))
       IN  /\ darknessMap' = [darknessMap EXCEPT ![job.pos + 1] = darkness]
           /\ tally' = Counted(tally, darkness, job.upper, job.lower)
    /\ job' = [job EXCEPT !.pos = job.pos + 1]
    /\ UNCHANGED <<imageData, patternData, given, grayValues, result, twin,
                   delivered, overlay>>
    /\ UNCHANGED <<curveVars, randVars, progVars>>

\* loop left: final statistics computed, 'complete' posted
AnalysisFinish ==
    /\ IsAnalysis /\ job.st = "running"
    /\ job.pos = TotalSamples(Grid(job, imageData))
    /\ delivered' = [type |-> "complete",
                     darknessMap |-> darknessMap,
                     stats |-> finalStats(tally),
                     stride |-> Stride(Grid(job, imageData)),
                     samplesWide |-> SamplesWide(Grid(job, imageData)),
                     samplesHigh |-> SamplesHigh(Grid(job, imageData))]
    /\ job' = [job EXCEPT !.st = "done"]
    /\ UNCHANGED <<imageData, patternData, given, grayValues, result, twin,
                   darknessMap, tally, overlay>>
    /\ UNCHANGED <<curveVars, randVars, progVars>>

\* ---- generateOverlay
\* Math.floor(Math.min(1, (darkness - upper) / (1 - upper)) * 128)
RedAlpha(d, upper) ==
    Min(128, (128 * (d[1] * 1000 - upper * d[2])) \div (d[2] * (1000 - upper)))

\* Math.floor(Math.min(1, (lower - darkness) / lower) * 128)
GreenAlpha(d, lower) ==
    Min(128, (128 * (lower * d[2] - d[1] * 1000)) \div (lower * d[2]))

OverlayPixel(d, upper, lower) ==
    IF Above(d, upper) THEN <<255, 0, 0, RedAlpha(d, upper)>>
    ELSE IF Below(d, lower) THEN <<0, 255, 0, GreenAlpha(d, lower)>>
    ELSE <<0, 0, 0, 0>>

generateOverlay(map, samplesWide, samplesHigh, stride, width, height, upperThreshold, lowerThreshold) ==
    [width |-> width, height |-> height,
     data |-> [i \in 1..(width * height) |->
        LET sx == ((i - 1) % width) \div stride
            sy == ((i - 1) \div width) \div stride
        IN  IF sx >= samplesWide \/ sy >= samplesHigh
            THEN <<0, 0, 0, 0>>
            ELSE OverlayPixel(map[sy * samplesWide + sx + 1],
                              upperThreshold, lowerThreshold)]]

\* the overlay rendered from a delivered analysis result
GenerateOverlay ==
    /\ IsAnalysis /\ job.st = "done"
    /\ overlay' = generateOverlay(delivered.darknessMap, delivered.samplesWide,
                      delivered.samplesHigh, delivered.stride,
                      imageData.width, imageData.height, job.upper, job.lower)
    /\ job' = [job EXCEPT !.st = "rendered"]
    /\ UNCHANGED <<imageData, patternData, given, grayValues, result, twin,
                   delivered, darknessMap, tally>>
    /\ UNCHANGED <<curveVars, randVars, progVars>>

\* the analysis is also run on three-pixel rows (a grid of three samples)
AnalysisImages == Images \cup {MakeImage(3, 1, f) : f \in Fills}

InitPixel ==
    /\ \/ /\ job \in HalftoneJobs
          /\ imageData \in Images
          /\ patternData \in PatternImages
          /\ twin \in {HalftoneRun(p) : p \in PatternImages \ {patternData}}
       \/ /\ job \in AnalysisJobs
          /\ imageData \in AnalysisImages
          /\ patternData = None
          /\ twin = None
    /\ given = [imageData |-> imageData, patternData |-> patternData]
    /\ grayValues = << >>
    /\ result = None
    /\ delivered = None
    /\ darknessMap = << >>
    /\ tally = None
    /\ overlay = None
    /\ CurveIdle /\ RandIdle
    /\ UnitIdle /\ WorkersInit /\ CtlInit /\ SlotInit

NextPixel ==
    \/ HalftoneBegin
    \/ HalftonePixel
    \/ HalftoneFinish
    \/ AnalysisBegin
    \/ AnalysisSample
    \/ AnalysisFinish
    \/ GenerateOverlay

SpecPixel == InitPixel /\ [][NextPixel]_vars

\* ============================================================= SpecRandom
\* generateRandomPattern called twice with the same parameters.  SeededRandom
\* keeps a 32-bit state; a word is the pair <<high 16 bits, low 16 bits>>.
RECURSIVE Xor16(_, _, _)
Xor16(a, b, k) ==
    IF k = 0 THEN 0
    ELSE (((a % 2) + (b % 2)) % 2) + 2 * Xor16(a \div 2, b \div 2, k - 1)

RECURSIVE Or16(_, _, _)
Or16(a, b, k) ==
    IF k = 0 THEN 0
    ELSE Max(a % 2, b % 2) + 2 * Or16(a \div 2, b \div 2, k - 1)

XorW(a, b) == <<Xor16(a[1], b[1], 16), Xor16(a[2], b[2], 16)>>

OrW(a, b) == <<Or16(a[1], b[1], 16), Or16(a[2], b[2], 16)>>

\* a >>> k for 0 < k < 16
ShrW(a, k) ==
    <<a[1] \div Pow(2, k),
      (a[2] \div Pow(2, k)) + (a[1] % Pow(2, k)) * Pow(2, 16 - k)>>

\* (a + b) mod 2^32
AddW(a, b) ==
    <<(a[1] + b[1] + (a[2] + b[2]) \div 65536) % 65536, (a[2] + b[2]) % 65536>>

\* (a * b) mod 2^16 for 16-bit a, b
Mul16(a, b) ==
    ((a % 256) * b + (((a \div 256) * (b % 256)) % 256) * 256) % 65536

\* Math.imul(a, b) as an unsigned word
imul(a, b) ==
    LET x == (a[2] % 256) * b[2]
        y == (a[2] \div 256) * b[2]
        low == x + 256 * (y % 256)
    IN  <<(low \div 65536 + y \div 256 + Mul16(a[1], b[2]) + Mul16(a[2], b[1]))
              % 65536,
          low % 65536>>

\* seed >>> 0
ToWord(n) == <<(n \div 65536) % 65536, n % 65536>>

\* a generator that ignores the seed it is given
SeededRandomFromClock(seeded, seed, now) == ToWord(now)

\* new SeededRandom(seed) when a seed is given, new SeededRandom() (seeded
\* with Date.now()) otherwise
SeededRandom(seeded, seed, now) == IF seeded THEN ToWord(seed) ELSE ToWord(now)

\* this.seed += 0x6D2B79F5
Advance(s) == AddW(s, <<27947, 31221>>)

\* the word next() divides by 4294967296, from the state already advanced
Mulberry(s) ==
    LET t1 == imul(XorW(s, ShrW(s, 15)), OrW(s, <<0, 1>>))
        t2 == XorW(t1, AddW(t1, imul(XorW(t1, ShrW(t1, 7)), OrW(t1, <<0, 61>>))))
    IN  XorW(t2, ShrW(t2, 14))

\* Math.round(nextGaussian(128, 50)) clamped to 0..255, by the quarter of
\* [0, 1) each of the two draws falls in (value at the quarter's midpoint)
GaussianTable ==
    << <<200, 56, 56, 200>>, <<178, 78, 78, 178>>,
       <<162, 94, 94, 162>>, <<146, 110, 110, 146>> >>

\* the generator state and the pixel value after one pass of the loop
RandomValue(distribution, s) ==
    LET s1 == Advance(s)
        u1 == Mulberry(s1)
        s2 == Advance(s1)
        u2 == Mulberry(s2)
    IN  CASE distribution = "binary" ->
               [rng |-> s1, value |-> IF u1[1] < 32768 THEN 0 ELSE 255]
          [] distribution = "normal" ->
               [rng |-> s2,
                value |-> GaussianTable[(u1[1] \div 16384) + 1][(u2[1] \div 16384) + 1]]
          [] OTHER ->
               [rng |-> s1, value |-> u1[1] \div 256]

Distributions == {"uniform", "normal", "binary"}

Seeds == {-1, 0, 42}

\* low bits of Date.now() at the two invocations
Clocks == {7, 8}

RandomJobs ==
    [op : {"random"}, distribution : Distributions, seeded : BOOLEAN,
     seed : Seeds, width : 1..MaxImgW, height : ImgHeights,
     pos : {0}, st : {"called"}]

IsRandom == job # None /\ job.op = "random"

InitRandom ==
    /\ job \in {j \in RandomJobs : j.seeded \/ j.seed = 0}
    /\ rng = None
    /\ imageData = None
    /\ patternData = None
    /\ given = None
    /\ grayValues = << >>
    /\ result = None
    /\ twin = None
    /\ delivered = None
    /\ darknessMap = << >>
    /\ tally = None
    /\ overlay = None
    /\ CurveIdle
    /\ UnitIdle /\ WorkersInit /\ CtlInit /\ SlotInit

\* both invocations entered: buffer and generator created
RandomCall ==
    /\ IsRandom /\ job.st = "called"
    /\ \E nowA, nowB \in Clocks :
          rng' = [a |-> SeededRandom(job.seeded, job.seed, nowA),
                  b |-> SeededRandom(job.seeded, job.seed, nowB)]
    /\ result' = ImageData(job.width, job.height)
    /\ twin' = [result |-> ImageData(job.width, job.height)]
    /\ job' = [job EXCEPT !.st = "loop"]
    /\ UNCHANGED <<imageData, patternData, given, grayValues, delivered,
                   darknessMap, tally, overlay>>
    /\ UNCHANGED <<curveVars, progVars>>

\* one pass of the pixel loop in both invocations
RandomPixel ==
    /\ IsRandom /\ job.st = "loop"
    /\ job.pos < job.width * job.height
    /\ LET a == RandomValue(job.distribution, rng.a)
           b == RandomValue(job.distribution, rng.b)
       IN  /\ rng' = [a |-> a.rng, b |-> b.rng]
           /\ result' = [result EXCEPT !.data[job.pos + 1] = Gray4(a.value)]
           /\ twin' = [twin EXCEPT !.result.data[job.pos + 1] = Gray4(b.value)]
    /\ job' = [job EXCEPT !.pos = job.pos + 1]
    /\ UNCHANGED <<imageData, patternData, given, grayValues, delivered,
                   darknessMap, tally, overlay>>
    /\ UNCHANGED <<curveVars, progVars>>

RandomReturn ==
    /\ IsRandom /\ job.st = "loop"
    /\ job.pos = job.width * job.height
    /\ job' = [job EXCEPT !.st = "returned"]
    /\ UNCHANGED <<rng, imageData, patternData, given, grayValues, result, twin,
                   delivered, darknessMap, tally, overlay>>
    /\ UNCHANGED <<curveVars, progVars>>

NextRandom == RandomCall \/ RandomPixel \/ RandomReturn

SpecRandom == InitRandom /\ [][NextRandom]_vars

\* ------------------------------------------------ properties of SpecUnit
RowBased(op) == op \in (GenOps \ {"random"}) \cup HalftoneMethods

\* the token already had its flag set when the call started
PreCancelled == token.present /\ token.cancelled /\ flip = None

Ended == call.st \in {"returned", "cancelled", "error"}

C11_FewPointsFailNotEnoughPoints ==
    (call.op \in CurveOps /\ call.iters <= 0 /\ call.st # "ready"
        /\ PointCount(call.op, call.iters) < 2)
        => /\ call.st = "error"
           /\ call.err = "Not enough points"
           /\ call.pos = 0
           /\ progressLog = << >>

\* C7: in a row-based operation, once the flag is set while row y is
\* processed or reported (y not the last row), no later row is computed, no
\* further progress is reported and the operation does not return a buffer:
\* the check at the start of row y+1 ends it as cancelled.
C7_FlagSetStopsAtNextRow ==
    (RowBased(call.op) /\ flip # None /\ flip.at < call.h)
        => /\ call.pos = flip.at
           /\ Len(progressLog) = flip.log
           /\ call.st \in {"loop", "cancelled"}

C7_Witness ==
    /\ call.op = "noise" /\ call.h = 3
    /\ flip # None /\ flip.at = 1
    /\ call.st = "cancelled" /\ call.pos = 1 /\ Len(progressLog) = 1

\* C8: within one operation the reported progress values are monotonically
\* non-decreasing and each lies in [0,1].
C8_ProgressMonotoneInUnitRange ==
    \A i \in 1..Len(progressLog) :
        /\ progressLog[i][2] > 0
        /\ 0 <= progressLog[i][1]
        /\ progressLog[i][1] <= progressLog[i][2]
        /\ i > 1 => FracLeq(progressLog[i - 1], progressLog[i])

C8_Witness ==
    /\ call.op = "random" /\ call.st = "returned"
    /\ Len(progressLog) >= 3
    /\ progressLog[1] # progressLog[Len(progressLog)]

\* rows (counted from 1) already processed after which progress is posted
PostingRows(u) == {y \in 1..u.pos : (y * u.w) % chunkSize = 0}

\* C9 (as stated): a halftone loop posts a progress message after each
\* processed scanline.
C9_ProgressAfterEveryScanline ==
    call.op \in HalftoneMethods => Len(progressLog) = call.pos

\* C9 (amended): a halftone loop posts progress only at scanline boundaries
\* and only when the number of pixels processed so far is a multiple of
\* 10000: one message of value (y+1)*width / (width*height) after scanline y
\* iff (y+1)*width % 10000 = 0.
C9_ProgressAtChunkBoundaries ==
    call.op \in HalftoneMethods
        => /\ Len(progressLog) = Cardinality(PostingRows(call))
           /\ \A y \in PostingRows(call) :
                 \E i \in 1..Len(progressLog) :
                     progressLog[i] = Frac(y * call.w, call.w * call.h)

C9_Witness ==
    /\ call.op = "floyd-steinberg" /\ call.st = "returned"
    /\ call.w = 5000 /\ call.h = 3
    /\ progressLog = << Frac(10000, 15000) >>

\* ---------------------------------------------------- properties of Spec
NoComplete(w) == \A i \in 1..Len(posted[w]) : posted[w][i].type # "complete"

\* C1 (as stated): a 'cancel' posted to the pattern worker while a render is
\* in its loop makes that render end without a 'complete' message.
C1_CancelDuringRenderPreventsComplete ==
    cancelMid["pattern"] => NoComplete("pattern")

\* C2 (as stated): DarknessAnalyzer.cancel() called while the analysis worker
\* is scanning makes the worker post no 'complete', and analyze() does not
\* resolve with a result for that call.
C2_CancelDuringScanPreventsComplete ==
    cancelMid["analysis"] =>
        /\ NoComplete("analysis")
        /\ (awaiting = None => lastError = "Analysis cancelled")

\* C4: analyze() called while another call is in flight fails with 'Analysis
\* already in progress' and changes nothing of the in-flight analysis: the
\* analyzer's fields, its worker (alive, queued messages, running scan, flag)
\* and the pending promise stay as they were.
C4_BusyAnalyzeLeavesInFlightUntouched ==
    [][(analyzeCalls' = analyzeCalls + 1 /\ analyzer.isAnalyzing) =>
          /\ lastError' = "Analysis already in progress"
          /\ analyzer' = analyzer
          /\ analyzer'.isAnalyzing /\ analyzer'.worker
          /\ alive'["analysis"]
          /\ awaiting' = awaiting /\ awaiting' # None
          /\ inbox'["analysis"] = inbox["analysis"]
          /\ outbox'["analysis"] = outbox["analysis"]
          /\ task'["analysis"] = task["analysis"]
          /\ cancelled'["analysis"] = cancelled["analysis"]]_vars

C4_Witness ==
    /\ analyzeCalls = 2
    /\ lastError = "Analysis already in progress"
    /\ analyzer.isAnalyzing /\ analyzer.worker /\ alive["analysis"]
    /\ awaiting # None
    /\ task["analysis"] # None /\ task["analysis"].st = "loop"

IsTerminal(m) == m.type \in {"complete", "cancelled", "error"}

\* C5: for every worker, the messages posted for an accepted request are
\* progress messages followed, once the handler has ended, by exactly one
\* terminal message ('complete', 'cancelled' or 'error'), which is the last.
C5_OneTerminalAfterAllProgress ==
    \A w \in Workers :
        LET log == posted[w]
            n   == Len(log)
        IN n > 0 =>
             /\ log[1].type = "request"
             /\ \A i \in 2..(n - 1) : log[i].type = "progress"
             /\ IF task[w] # None
                THEN n > 1 => log[n].type = "progress"
                ELSE n > 1 /\ IsTerminal(log[n])

C5_Witness ==
    /\ task["pattern"] = None
    /\ Len(posted["pattern"]) = 4
    /\ posted["pattern"][2].type = "progress"
    /\ posted["pattern"][4].type = "complete"
    /\ task["analysis"] = None
    /\ Len(posted["analysis"]) > 1
    /\ posted["analysis"][Len(posted["analysis"])].type = "complete"

\* C10 (as stated): a render request is refused as an unknown pattern type
\* exactly when its identifier is not one of the seven pattern kinds.
C10_ExactlySevenKindsAccepted ==
    LET t == task["pattern"]
    IN t # None => ((t.op \in GenOps) <=> (t.err # "Unknown pattern type"))

\* ------------------------------------------------ properties of SpecSlot
\* C3 (as stated): at most one applyHalftone invocation is in flight.
C3_AtMostOneUnitInFlight == Len(units) <= 1

\* ---------------------------------------------- properties of SpecCurve
ClosedFormCount(kind, n) == IF kind = "peano" THEN Pow(9, n) ELSE Pow(4, n)

\* C12: for n >= 1 generateHilbertPoints returns exactly 4^n points,
\* generatePeanoPoints 9^n and generateZOrderPoints 4^n, and no two
\* consecutive points of a sequence are equal.
C12_ClosedFormCountNoAdjacentDuplicates ==
    (curve.kind \in {"hilbert", "peano", "zorder"} /\ curve.n >= 1)
        => /\ \A i \in 1..(Len(points) - 1) : points[i] # points[i + 1]
           /\ Len(points) <= ClosedFormCount(curve.kind, curve.n)
           /\ curve.st = "returned"
                 => Len(points) = ClosedFormCount(curve.kind, curve.n)

C12_Witness ==
    /\ curve.kind = "peano" /\ curve.n = 2 /\ curve.st = "returned"
    /\ Len(points) = 81
    /\ points[1] # points[2]

Abs(v) == IF v < 0 THEN 0 - v ELSE v

\* the grid cell a point is the centre of (for the index-based generator the
\* point is the cell's integer coordinate itself)
CellOf(kind, p) ==
    IF kind = "hilbertIndex" THEN p ELSE <<(p[1] - 1) \div 2, (p[2] - 1) \div 2>>

IsCellPoint(kind, n, p) ==
    /\ CellOf(kind, p)[1] \in 0..(Pow(2, n) - 1)
    /\ CellOf(kind, p)[2] \in 0..(Pow(2, n) - 1)
    /\ kind # "hilbertIndex" => (p[1] % 2 = 1 /\ p[2] % 2 = 1)

EdgeAdjacent(kind, n, p, q) ==
    \/ (p[1] = q[1] /\ Abs(p[2] - q[2]) = Pitch(kind, n))
    \/ (p[2] = q[2] /\ Abs(p[1] - q[1]) = Pitch(kind, n))

\* C13: for n >= 1 the Hilbert point sequence, from the recursive generator
\* and from the index-to-coordinate mapping, is a Hamiltonian path of the
\* 2^n x 2^n grid: every point is the centre of a grid cell, no cell is
\* visited twice, consecutive points lie in edge-adjacent cells, and the
\* finished sequence has 4^n points, so every cell is visited.
C13_HilbertIsHamiltonianPath ==
    (curve.kind \in {"hilbert", "hilbertIndex"} /\ curve.n >= 1)
        => /\ \A i \in 1..Len(points) : IsCellPoint(curve.kind, curve.n, points[i])
           /\ \A i, j \in 1..Len(points) : i # j => points[i] # points[j]
           /\ \A i \in 1..(Len(points) - 1) :
                 EdgeAdjacent(curve.kind, curve.n, points[i], points[i + 1])
           /\ curve.st = "returned" => Len(points) = Pow(4, curve.n)

C13_Witness ==
    /\ curve.kind = "hilbertIndex" /\ curve.n = 2 /\ curve.st = "returned"
    /\ Len(points) = 16
    /\ points[1] = <<0, 0>>

\* bit i of x at position 2i, bit i of y at position 2i+1
InterleavedCode(x, y, n) ==
    LET RECURSIVE Sum(_)
        Sum(i) == IF i >= n THEN 0
                  ELSE Bit(x, i) * Pow(4, i) + 2 * Bit(y, i) * Pow(4, i) + Sum(i + 1)
    IN Sum(0)

\* C14: for n >= 1 the k-th point generateZOrderPoints emits (k from 0) is
\* the centre of the one cell of the 2^n x 2^n grid whose bit-interleaved
\* code equals k.
C14_ZOrderInMortonOrder ==
    (curve.kind = "zorder" /\ curve.n >= 1)
        => /\ Len(points) <= Pow(4, curve.n)
           /\ curve.st = "returned" => Len(points) = Pow(4, curve.n)
           /\ \A k \in 1..Len(points) :
                 LET cells == {c \in (0..(Pow(2, curve.n) - 1)) \X (0..(Pow(2, curve.n) - 1)) :
                                  InterleavedCode(c[1], c[2], curve.n) = k - 1}
                 IN /\ Cardinality(cells) = 1
                    /\ \A c \in cells : points[k] = <<2 * c[1] + 1, 2 * c[2] + 1>>

C14_Witness ==
    /\ curve.kind = "zorder" /\ curve.n = 2 /\ curve.st = "returned"
    /\ Len(points) = 16
    /\ points[2] = <<3, 1>> /\ points[3] = <<1, 3>>

\* ------------------------------------------------ properties of SpecPixel
\* every colour channel of every pixel is 0 or 255
BinaryBuffer(buf) ==
    \A i \in 1..Len(buf.data) : \A c \in 1..3 : buf.data[i][c] \in {0, 255}

\* v is the integer in 0..255 nearest to num/den clamped to [0, 255]
NearestClamped(v, num, den) ==
    IF num <= 0 THEN v = 0
    ELSE IF num >= 255 * den THEN v = 255
    ELSE 2 * (v * den - num) <= den /\ 2 * (num - v * den) <= den

\* C15 as stated: for method 'threshold' every pixel of the delivered buffer
\* is exactly 0 or 255, whatever the contrast and brightness.
C15_ThresholdDeliversBinary ==
    (IsHalftone /\ job.op = "threshold" /\ job.st = "done")
        => BinaryBuffer(delivered.imageData)

\* C15 amended: for method 'threshold' every pixel the halftone loop writes
\* is 0 or 255, and the delivered buffer is binary when contrast = 0 and
\* brightness = 0; otherwise every delivered value is the nearest integer
\* to contrastFactor * (v - 128) + 128 + 2.55 * brightness clamped to
\* [0, 255], for v = 0 or v = 255.
C15_ThresholdBinaryBeforeAdjustment ==
    (IsHalftone /\ job.op = "threshold") =>
        /\ job.st = "running" =>
               \A i \in 1..job.pos : result.data[i] \in {Gray4(0), Gray4(255)}
        /\ job.st = "done" =>
               \A i \in 1..Len(delivered.imageData.data) :
                   LET p == delivered.imageData.data[i]
                   IN  /\ p[1] = p[2] /\ p[2] = p[3] /\ p[4] = 255
                       /\ IF job.contrast = 0 /\ job.brightness = 0
                          THEN p[1] \in {0, 255}
                          ELSE \E v \in {0, 255} :
                                 NearestClamped(p[1],
                                     AdjustNum(v, job.contrast, job.brightness),
                                     AdjustDen(job.contrast))

C15_Witness ==
    /\ IsHalftone /\ job.op = "threshold" /\ job.st = "done"
    /\ job.contrast = 0 /\ job.brightness = 0
    /\ \E i, k \in 1..Len(delivered.imageData.data) :
          /\ delivered.imageData.data[i] = Gray4(0)
          /\ delivered.imageData.data[k] = Gray4(255)

\* C16: the buffers of 'floyd-steinberg' and of 'ordered' are the same in
\* two runs on the same source image with different pattern buffers.
C16_DitherOutputIgnoresPattern ==
    (IsHalftone /\ job.op \in {"floyd-steinberg", "ordered"}) =>
        /\ twin.result = result
        /\ job.st = "done" => delivered.imageData = twin.result

C16_Witness ==
    /\ IsHalftone /\ job.op = "ordered" /\ job.st = "done"
    /\ twin.patternData # patternData
    /\ twin.patternData.width # patternData.width
    /\ \E i, k \in 1..Len(result.data) :
          result.data[i] = Gray4(0) /\ result.data[k] = Gray4(255)

AllOf(img, colour) == \A i \in 1..Len(img.data) : img.data[i] = colour

\* C17: the analysis of an all-white buffer yields meanDarkness = 0 and
\* percentTooDark = 0, that of an all-black buffer meanDarkness = 1 and
\* percentTooLight = 0, for every image size, radius and thresholds.
C17_UniformBuffersHaveExtremeStats ==
    (IsAnalysis /\ job.st \in {"done", "rendered"}) =>
        /\ AllOf(given.imageData, White) =>
               /\ delivered.stats.meanDarkness[1] = 0
               /\ delivered.stats.percentTooDark[1] = 0
        /\ AllOf(given.imageData, Black) =>
               /\ delivered.stats.meanDarkness[1] = delivered.stats.meanDarkness[2]
               /\ delivered.stats.percentTooLight[1] = 0

C17_Witness ==
    /\ IsAnalysis /\ job.st = "done"
    /\ AllOf(given.imageData, Black)
    /\ Len(given.imageData.data) > 1
    /\ job.radiusTenths > 0
    /\ delivered.stats.meanDarkness[1] = delivered.stats.meanDarkness[2]
    /\ delivered.stats.balancedPixels > 0

\* indexes of the pixels of the window of sample k (0-based) that lie inside
\* the image
Window(j, img, k) ==
    LET g == Grid(j, img)
        radius == RoundTenths(j.radiusTenths)
        cx == (k % SamplesWide(g)) * Stride(g)
        cy == (k \div SamplesWide(g)) * Stride(g)
    IN  {i \in 1..Len(img.data) :
            LET dx == ((i - 1) % img.width) - cx
                dy == ((i - 1) \div img.width) - cy
            IN  dx * dx + dy * dy <= radius * radius}

\* C18: a pixel is counted dark exactly when its luma
\* 0.299 R + 0.587 G + 0.114 B is below 128: every sample computed is the
\* number of such pixels in its window over the number of pixels in it.
C18_DarkIffLumaBelow128 ==
    (IsAnalysis /\ job.st = "running") =>
        \A k \in 0..(job.pos - 1) :
            LET win == Window(job, imageData, k)
                dark == {i \in win : Luma1000(imageData.data[i]) < 128000}
            IN  darknessMap[k + 1][1] * Cardinality(win)
                    = Cardinality(dark) * darknessMap[k + 1][2]

C20_InputBuffersNeverWritten ==
    job # None =>
        /\ imageData = given.imageData
        /\ patternData = given.patternData
        /\ (IsAnalysis /\ job.st = "rendered") =>
               delivered.darknessMap = darknessMap

\* a Floyd-Steinberg request with a brightness offset has completed: both
\* the error diffusion and the in-place pass have run, the delivered
\* buffer differs from the source
C20_Witness ==
    /\ IsHalftone /\ job.op = "floyd-steinberg" /\ job.st = "done"
    /\ job.brightness # 0
    /\ Len(imageData.data) > 1
    /\ delivered.imageData.data # imageData.data
    /\ imageData = given.imageData

\* C30: for n >= 1 the Peano point sequence is a Hamiltonian path of the
\* 3^n x 3^n grid: every point is the centre of a cell, no cell is visited
\* twice, the finished sequence has 9^n points, and every two consecutive
\* points lie in edge-adjacent cells (one cell pitch apart).
C30_PeanoIsHamiltonianPath ==
    (curve.kind = "peano" /\ curve.n >= 1)
        => /\ \A i \in 1..Len(points) :
                 /\ points[i][1] % 2 = 1 /\ points[i][2] % 2 = 1
                 /\ points[i][1] \in 1..ExactSize("peano", curve.n)
                 /\ points[i][2] \in 1..ExactSize("peano", curve.n)
           /\ \A i, j \in 1..Len(points) : i # j => points[i] # points[j]
           /\ curve.st = "returned" => Len(points) = Pow(9, curve.n)
           /\ \A i \in 1..(Len(points) - 1) :
                 EdgeAdjacent("peano", curve.n, points[i], points[i + 1])

\* ----------------------------------------------- properties of SpecRandom
\* C22: two invocations of generateRandomPattern with the same width,
\* height, distribution and seed fill identical buffers, pixel by pixel,
\* and their generators are in the same state after every pixel.
C22_SeededRunsIdentical ==
    (IsRandom /\ job.seeded /\ job.st # "called") =>
        /\ twin.result = result
        /\ rng.a = rng.b

\* seed 42, uniform: the first two values are those Mulberry32 gives for
\* the seed 42 (0.5998..., 0.4482... times 256)
C22_Witness ==
    /\ IsRandom /\ job.seeded /\ job.st = "returned"
    /\ job.distribution = "uniform" /\ job.seed = 42
    /\ job.width = 2 /\ job.height = 2
    /\ result.data[1] = Gray4(153) /\ result.data[2] = Gray4(114)
    /\ twin.result = result

\* sixteenths of the error the pixel at offset (dx, dy) receives
FSWeight(dx, dy) ==
    CASE dx = 1 /\ dy = 0  -> 7
      [] dx = -1 /\ dy = 1 -> 3
      [] dx = 0 /\ dy = 1  -> 5
      [] dx = 1 /\ dy = 1  -> 1
      [] OTHER -> 0

\* C29: applyFloydSteinberg takes the pixels in raster order; each step
\* writes 0 if the accumulated value of its pixel is below 128 and 255
\* otherwise, leaves the pixels written before untouched, and changes the
\* accumulated values of the right, below-left, below and below-right
\* neighbours inside the image by 7/16, 3/16, 5/16 and 1/16 of the error
\* old - new and no other value; every pixel written is 0 or 255.
C29_FloydSteinbergDiffusion ==
    [][(IsHalftone /\ job.op = "floyd-steinberg" /\ job.st = "running"
          /\ job'.st = "running" /\ job'.pos # job.pos)
        => LET w == imageData.width
               i == job.pos
               old == grayValues[i + 1]
               new == IF old < 128 * FSScale(imageData) THEN 0 ELSE 255
               error == old - new * FSScale(imageData)
           IN  /\ job'.pos = i + 1
               /\ result'.data[i + 1] = Gray4(new)
               /\ \A j \in 1..Len(result.data) :
                      j # i + 1 => result'.data[j] = result.data[j]
               /\ \A j \in 1..(i + 1) : result'.data[j] \in {Gray4(0), Gray4(255)}
               /\ \A j \in 1..Len(grayValues) :
                      LET k == FSWeight(((j - 1) % w) - (i % w),
                                        ((j - 1) \div w) - (i \div w))
                          delta == grayValues'[j] - grayValues[j]
                      IN  IF k = 0 THEN delta = 0
                          ELSE delta % k = 0 /\ (delta \div k) * 16 = error
       ]_vars

\* a uniform mid-gray 2x2 image: the error of each pixel moves the next
\* ones across the threshold, the output is 255, 0, 0, 255
C29_Witness ==
    /\ IsHalftone /\ job.op = "floyd-steinberg" /\ job.st = "running"
    /\ imageData = MakeImage(2, 2, "mid")
    /\ job.pos = 4
    /\ result.data = <<Gray4(255), Gray4(0), Gray4(0), Gray4(255)>>

\* the exact parts of the three percentages add up to 100
PercentagesExactlyCover(st) ==
    /\ st.percentTooDark[2] = st.percentTooLight[2]
    /\ st.percentTooLight[2] = st.percentBalanced[2]
    /\ st.percentTooDark[1] + st.percentTooLight[1] + st.percentBalanced[1]
           = 100 * st.percentTooDark[2]

\* what C26 says of the scan while it runs and of the grid on completion
ScanConsistent ==
    /\ job.st = "running" =>
          /\ tally.sampleCount = job.pos
          /\ tally.tooDark + tally.tooLight + tally.balanced = tally.sampleCount
          /\ \A k \in 0..(job.pos - 1) :
                LET d == darknessMap[k + 1]
                IN  /\ d[2] = Cardinality(Window(job, imageData, k))
                    /\ d[2] > 0 /\ d[1] >= 0 /\ d[1] <= d[2]
          /\ tally.tooDark = Cardinality({k \in 1..job.pos :
                                 Above(darknessMap[k], job.upper)})
          /\ tally.tooLight = Cardinality({k \in 1..job.pos :
                                 /\ ~Above(darknessMap[k], job.upper)
                                 /\ Below(darknessMap[k], job.lower)})
    /\ job.st \in {"done", "rendered"} =>
          LET stride == Max(1, RoundTenths(job.radiusTenths) \div 4)
              n == CeilDiv(imageData.width, stride) * CeilDiv(imageData.height, stride)
              st == delivered.stats
          IN  /\ tally.sampleCount = n
              /\ Len(delivered.darknessMap) = n
              /\ st.tooDarkPixels + st.tooLightPixels + st.balancedPixels = n
              /\ PercentagesExactlyCover(st)

\* C26 as stated: the running statistics are consistent, and on
\* completion the three percentages sum to 100.
C26_StatsConsistentPercentagesSumTo100 ==
    IsAnalysis =>
        /\ ScanConsistent
        /\ job.st \in {"done", "rendered"} =>
              delivered.stats.rounding.tooDark + delivered.stats.rounding.tooLight
                  + delivered.stats.rounding.balanced = 0

\* C26 amended: the running statistics are consistent; on completion the
\* three counts sum to sampleCount and each percentage is the double
\* nearest to (count / sampleCount) * 100 as evaluated, within 2^-45 of
\* 100 * count / sampleCount, so the percentages sum to 100 up to rounding.
C26_StatsConsistentPercentagesNear100 ==
    IsAnalysis =>
        /\ ScanConsistent
        /\ job.st \in {"done", "rendered"} =>
              \A c \in {"tooDark", "tooLight", "balanced"} :
                  /\ delivered.stats.rounding[c] <= 128 * tally.sampleCount
                  /\ delivered.stats.rounding[c] >= 0 - 128 * tally.sampleCount

\* three samples, two too dark and one too light: 66.66666666666666 and
\* 33.33333333333333
C26_Witness ==
    /\ IsAnalysis /\ job.st = "done"
    /\ tally.sampleCount = 3
    /\ delivered.stats.tooDarkPixels = 2 /\ delivered.stats.tooLightPixels = 1
    /\ delivered.stats.rounding.tooDark = -128
    /\ delivered.stats.rounding.tooLight = -64

\* ------------------------------------------------ properties of SpecUnit
\* C21: a call that ends cancelled raises no failure alert and writes no
\* error-level log entry; every other error outcome raises the failure alert.
C21_CancellationNeitherAlertedNorLogged ==
    settled # None =>
        /\ settled.outcome = "cancelled" => ~settled.alert /\ ~settled.errorLogged
        /\ settled.outcome = "error" => settled.alert

\* ---------------------------------------------------- properties of Spec
\* C25: a 'cancel' a worker handled while no request was running does not
\* make any later request end 'cancelled', and with no analysis in flight
\* nothing of a cancel() is left to reach the next analysis.
C25_StaleCancelNeverEndsLaterRequest ==
    /\ \A w \in Workers :
          (posted[w] # << >> /\ posted[w][1].stale) =>
              /\ \A i \in 1..Len(posted[w]) : posted[w][i].type # "cancelled"
              /\ task[w] # None => task[w].st # "cancelled" /\ ~cancelled[w]
    /\ ~analyzer.worker => inbox["analysis"] = << >> /\ ~cancelled["analysis"]
    /\ (posted["analysis"] # << >>) => ~posted["analysis"][1].stale

\* a render accepted with the flag still set from an earlier cancel has
\* completed
C25_Witness ==
    /\ posted["pattern"] # << >>
    /\ posted["pattern"][1].stale
    /\ task["pattern"] = None
    /\ posted["pattern"][Len(posted["pattern"])].type = "complete"

\* C24: isAnalyzing is true exactly while an analyze call is in flight, a
\* worker exists only while isAnalyzing is true, and once the call has
\* settled (complete, cancelled, error message, worker error, failure to
\* create the worker) isAnalyzing is false and worker is null.
C24_AnalyzerFlagsConsistent ==
    /\ analyzer.isAnalyzing <=> awaiting # None
    /\ analyzer.worker => analyzer.isAnalyzing
    /\ analyzer.worker <=> alive["analysis"]
    /\ awaiting = None => ~analyzer.isAnalyzing /\ ~analyzer.worker

\* an analysis settled by a worker error, the analyzer ready for the next
C24_Witness ==
    /\ lastError = "Worker error"
    /\ awaiting = None
    /\ ~analyzer.isAnalyzing /\ ~analyzer.worker /\ ~alive["analysis"]
    /\ analyzeCalls > 0

\* C23: a generation completing or a pattern import leaves the analysis in
\* flight, the analyzer and the stored result as they were, and while an
\* analysis is in flight the analyze control stays disabled and
\* state.rendering.isAnalyzing stays true.
C23_AnalysisSlotUntouchedByOtherSlots ==
    /\ [](analyzer.isAnalyzing => analysisUI.btnDisabled /\ analysisUI.isAnalyzing)
    /\ [][(DeliverPattern \/ \E size \in ImportSizes : ImportPattern(size)) =>
              /\ analysisUI'.isAnalyzing = analysisUI.isAnalyzing
              /\ UNCHANGED <<analyzer, awaiting, analysisResult>>]_vars

\* renderAnalysisResult has just run with a result present: an analysis was
\* delivered complete, or the checkbox was toggled
Rendered ==
    /\ analysisResult' # None
    /\ \/ ToggleOverlay
       \/ DeliverAnalysis /\ Head(outbox["analysis"]).type = "complete"

\* C27: after renderAnalysisResult ran with showOverlay enabled, the analysis
\* canvas holds the base pattern with the overlay composited over it, and
\* the stored pattern buffers are as they were.
C27_CanvasShowsOverlayOverPattern ==
    [][(Rendered /\ showOverlay') =>
          /\ analysisCanvas'.base = (IF importedPattern # None THEN importedPattern
                                                              ELSE generatedPattern)
          /\ overlayCanvas' # None
          /\ analysisCanvas'.overlay = overlayCanvas'
          /\ UNCHANGED <<generatedPattern, importedPattern>>]_vars

\* C28: whenever renderAnalysisResult draws the overlay, the base image it
\* selects is the image that was passed to the analysis that produced the
\* stored result.
C28_OverlayDrawnOverAnalysedImage ==
    [][(Rendered /\ showOverlay') =>
          /\ overlayCanvas' # None
          /\ overlayCanvas'.base = analysisResult'.img
          /\ overlayCanvas'.of = overlayCanvas'.base]_vars

====
